---- MODULE Spec2Model ----
(***************************************************************************)
(* nylabank: the money-movement handlers of app/api/v1/transactions.py,    *)
(* the account handlers of app/api/v1/accounts.py and app/api/v1/admin.py, *)
(* and the OTP handlers of app/api/v1/users.py, over the generic           *)
(* repository of app/crud/base_crud.py.                                    *)
(*                                                                         *)
(* Every request runs on its own database session (app/db/session.py,      *)
(* expire_on_commit=False) and every repository call commits on its own.   *)
(* A money-movement handler is therefore a sequence of separately          *)
(* committed steps; the steps of different requests interleave at every    *)
(* await.  Amounts and balances are counted in thousandths of the currency *)
(* unit: a request may carry any Decimal, a Numeric(10, 2) column keeps     *)
(* hundredths.                                                             *)
(***************************************************************************)
EXTENDS Integers, Sequences, FiniteSets, TLC

\* ---------------------------------------------------------------- bounds
\* the number of transaction rows the table may hold when the requests are
\* served one at a time, and when they are served concurrently
MaxTx == 2
MaxTxConcurrent == 3
MaxTxLedger == 4
\* codes e-mailed in one behaviour, and the last minute the clock reaches
MaxOtps == 2
MaxNow == 11

\* ------------------------------------------------------------ input sets
Requests == {"r1", "r2"}
AccountIds == {"a1", "a2"}
\* the authenticated users who send requests (bob owns an account, sends none)
Callers == {"alice", "root"}
\* one hundredth, the last digit a Numeric(10, 2) column keeps, in thousandths
Cent == 10
\* amounts a request body may carry (Decimal, no validation on the request):
\* -0.01, 0, 0.004, 0.005, 0.01
AmountInputs == {-Cent, 0, 4, 5, Cent}
\* the positive amounts among them that have two decimals
WholeAmounts == {v \in AmountInputs : v > 0 /\ v % Cent = 0}
\* opening balances a create request may carry
OpenBalances == {Cent}
\* balances an update request may carry
PatchBalances == {3 * Cent}
\* currencies an update request may carry
PatchCurrencies == {"EUR"}
\* the random characters generate_reference_number may draw
Suffixes == {"K7Q2", "ZP4M"}
\* the digits generate_account_number may draw, and the attempts create_account
\* makes to find a number that is free
AccountNumbers == {"264049449147", "242294630755"}
max_attempts == 10

\* the addresses a request may carry, each written as the sequence of its
\* characters: ann@nyla.io and Ann@nyla.io
Emails ==
    {<< "a", "n", "n", "@", "n", "y", "l", "a", ".", "i", "o" >>,
     << "A", "n", "n", "@", "n", "y", "l", "a", ".", "i", "o" >>}
\* the 6-digit codes random.randint can draw, the passwords and the minutes the
\* clock can jump
Codes == {"100000", "999999"}
Passwords == {"pw1", "pw2"}
ClockSteps == {11}
\* the page and per_page parameters a listing request may carry
Pages == {0, 1, 2}
PerPages == {1, 10, 51}

NULL == "null"
None == << >>
Some(v) == << v >>

\* ----------------------------------------------------------------- enums
AccountStatus == {"active", "frozen", "closed"}
TransactionStatus == {"pending", "completed", "failed", "reversed"}
TransactionType == {"deposit", "withdrawal", "transfer", "fee"}

\* the role of the authenticated user (users are seeded; root is the admin)
UserRole(u) == IF u = "root" THEN "admin" ELSE "customer"

\* the user_id the create request for account id a carries, and the
\* currencies it may carry
OwnerOf(a) == IF a = "a2" THEN "bob" ELSE "alice"
Currencies(a) == IF a = "a2" THEN {"USD", "EUR"} ELSE {"USD"}

VARIABLES
    accounts,      \* table accounts: id -> row (exists = FALSE: no such row)
    transactions,  \* table transactions: the rows in insertion order
    req,           \* the request in flight on each connection
    response,      \* the last HTTP response sent
    users,         \* table users: email -> row
    otps,          \* table otps: the set of rows
    now,           \* wall clock (datetime.utcnow), in minutes
    outbox,        \* the codes e-mailed so far, oldest first
    notice         \* what the last notification task logged

vars == << accounts, transactions, req, response, users, otps, now, outbox, notice >>

NoAccount ==
    [exists |-> FALSE, user_id |-> NULL, account_number |-> NULL, balance |-> 0,
     currency |-> NULL, status |-> NULL]

\* a field of a request body: left out, sent as null, or sent with a value
\* (d: a value of the field's type, not looked at)
Absent(d) == [given |-> FALSE, null |-> FALSE, value |-> d]
JsonNull(d) == [given |-> TRUE, null |-> TRUE, value |-> d]
Value(v) == [given |-> TRUE, null |-> FALSE, value |-> v]

\* the body with no field set
NoPatch ==
    [account_number |-> Absent(NULL), balance |-> Absent(0),
     currency |-> Absent(NULL), status |-> Absent(NULL)]

NoUser == [exists |-> FALSE, is_active |-> FALSE, hashed_password |-> NULL]

NoOtp ==
    [id |-> 0, email |-> None, otp_code |-> NULL, expires_on |-> 0,
     is_expired |-> FALSE]

\* seen: the account object the request's session holds (as last read or
\* refreshed, or as built for the INSERT); patch: the body of an update;
\* attempt: the round of create_account's loop; from_rows, to_rows: the
\* collections from_transactions and to_transactions as the flush of a delete
\* loaded them; queries: the calls of BaseCRUD.filter a read handler still has
\* to make, found: the number of rows they have returned, skip, per_page: its
\* window; user, otp: the user and OTP objects the session holds; code: the
\* code the request carries
Idle ==
    [pc |-> "idle", op |-> NULL, caller |-> NULL, a |-> NULL, b |-> NULL,
     amount |-> 0, seen |-> NoAccount, nb1 |-> 0, nb2 |-> 0, t |-> 0, t2 |-> 0,
     patch |-> NoPatch, attempt |-> 0, from_rows |-> {}, to_rows |-> {},
     queries |-> << >>, found |-> 0, skip |-> 0, per_page |-> 0,
     email |-> None, password |-> NULL, code |-> NULL,
     user |-> NoUser, otp |-> NoOtp]

NoResponse == [op |-> NULL, code |-> 0, detail |-> NULL]

Reply(op, code, detail) == [op |-> op, code |-> code, detail |-> detail]

\* ------------------------------------------------- repository and checks
\* BaseCRUD.get: the row with this id, if any
Found(a) == accounts[a].exists

\* variant: the ownership check lets every caller through
AccessDeniedNever(caller, acct) == FALSE

\* a customer may touch only the accounts they own
AccessDenied(caller, acct) ==
    UserRole(caller) = "customer" /\ acct.user_id # caller

\* mutation: a frozen account counts as active
NotActiveClosedOnly(acct) == acct.status = "closed"

\* "Account is not active"
NotActive(acct) == acct.status # "active"

\* variant: the funds test lets a request take one hundredth more than the
\* balance
InsufficientBalanceLenient(acct, amount) == acct.balance + Cent < amount

\* "Insufficient balance"
InsufficientBalance(acct, amount) == acct.balance < amount

\* mutation: currencies are not compared
CurrencyMismatchIgnored(from, to) == FALSE

\* "Cannot transfer between accounts with different currencies"
CurrencyMismatch(from, to) == from.currency # to.currency

\* variant: the validator lets zero through
AmountRejectedOnlyNegative(v) == v < 0

\* TransactionCreate.validate_amount raises ValueError
AmountRejected(v) == v <= 0

\* mutation: a REVERSED row may be reversed again
NotReversibleOnlyPending(tx) == tx.status \notin {"completed", "reversed"}

\* "Only completed transactions can be reversed"
NotReversible(tx) == tx.status # "completed"

\* "Only admins can reverse transactions"
NotAdmin(caller) == UserRole(caller) # "admin"

\* a Numeric(10, 2) column keeps the hundredth nearest to the value it is
\* given, the half away from zero
Numeric(v) ==
    LET m == IF v < 0 THEN -v ELSE v
        q == ((m + Cent \div 2) \div Cent) * Cent
    IN IF v < 0 THEN -q ELSE q

\* a transaction kind is a string, written here as the sequence of its
\* characters; these are the four literals the handlers pass
deposit == << "d", "e", "p", "o", "s", "i", "t" >>
withdrawal == << "w", "i", "t", "h", "d", "r", "a", "w", "a", "l" >>
transfer == << "t", "r", "a", "n", "s", "f", "e", "r" >>
reversal == << "r", "e", "v", "e", "r", "s", "a", "l" >>

\* str.lower: the letters A-Z go to a-z.  (Of the characters outside ASCII
\* whose lower case is an ASCII letter, the Kelvin sign goes to k, a letter
\* that is in none of the four kinds; every other character stays as it is.)
lower(kind) ==
    LET LowerChar(c) ==
        CASE c = "A" -> "a" [] c = "B" -> "b" [] c = "C" -> "c" [] c = "D" -> "d"
          [] c = "E" -> "e" [] c = "F" -> "f" [] c = "G" -> "g" [] c = "H" -> "h"
          [] c = "I" -> "i" [] c = "J" -> "j" [] c = "K" -> "k" [] c = "L" -> "l"
          [] c = "M" -> "m" [] c = "N" -> "n" [] c = "O" -> "o" [] c = "P" -> "p"
          [] c = "Q" -> "q" [] c = "R" -> "r" [] c = "S" -> "s" [] c = "T" -> "t"
          [] c = "U" -> "u" [] c = "V" -> "v" [] c = "W" -> "w" [] c = "X" -> "x"
          [] c = "Y" -> "y" [] c = "Z" -> "z"
          [] OTHER -> c
    IN [i \in DOMAIN kind |-> LowerChar(kind[i])]

Prefix(kind) ==
    CASE lower(kind) = deposit -> "DEP"
      [] lower(kind) = withdrawal -> "WTH"
      [] lower(kind) = transfer -> "TRF"
      [] lower(kind) = reversal -> "REV"
      [] OTHER -> "TXN"

\* the prefix of the kind and the random characters drawn (n)
generate_reference_number(kind, n) == << Prefix(kind), n >>

\* mutation: no unique index on reference_number
ReferenceTakenNoIndex(ref) == FALSE

\* the unique index on transactions.reference_number refuses the INSERT
ReferenceTaken(ref) ==
    \E i \in DOMAIN transactions : transactions[i].reference_number = ref

\* the row TransactionCreate describes, as the table stores it: amount and
\* balance_after are Numeric(10, 2) columns
TransactionRow(from, to, type, amount, ref, balance_after) ==
    [from_account_id |-> from, to_account_id |-> to, transaction_type |-> type,
     amount |-> Numeric(amount), reference_number |-> ref, status |-> "completed",
     balance_after |-> IF balance_after = None THEN None
                       ELSE Some(Numeric(balance_after[1]))]

\* BaseCRUD.update flushes an UPDATE by primary key; when another connection
\* has deleted the row it matches nothing and the commit raises
RowGone(a) == ~accounts[a].exists

\* BaseCRUD.update on an account: only the column that changed is written
WriteBalance(a, v) == [accounts EXCEPT ![a].balance = Numeric(v)]
WriteStatus(a, s) == [accounts EXCEPT ![a].status = s]

\* pcs at which a request still has its INSERT into transactions ahead
CreatingPcs == {"dep_create", "wth_create", "trf_load_to", "trf_create", "rev_create"}

\* the table has room (cap rows) for the row this request is about to ask for
Room(cap) ==
    Len(transactions) + Cardinality({q \in Requests : req[q].pc \in CreatingPcs})
        < cap

Finish(r, reply) ==
    /\ req' = [req EXCEPT ![r] = Idle]
    /\ response' = reply

Reject(reply) ==
    /\ req' = req
    /\ response' = reply

Goto(r, fields) == req' = [req EXCEPT ![r] = fields]

\* the handler returns its answer and the background task is left to run at pc
\* next on the same connection
Respond(r, next, reply) ==
    /\ req' = [req EXCEPT ![r].pc = next]
    /\ response' = reply

\* the task's own try/except: it logs that the e-mail went out, or logs the
\* exception, and ends either way
RunNotification(r, delivered) ==
    /\ notice' = IF delivered THEN "sent" ELSE "failed"
    /\ Finish(r, response)

\* --------------------------------------------------------------- deposit
DepositStart(r, caller, a, amount, cap) ==
    /\ req[r].pc = "idle"
    /\ UNCHANGED << accounts, transactions, users, otps, now, outbox, notice >>
    /\ IF ~Found(a)
         THEN Reject(Reply("deposit", 404, "Account not found"))
       ELSE IF AccessDenied(caller, accounts[a])
         THEN Reject(Reply("deposit", 403, "Access denied to this account"))
       ELSE IF NotActive(accounts[a])
         THEN Reject(Reply("deposit", 400, "Account is not active"))
       ELSE IF AmountRejected(amount)
         THEN Reject(Reply("deposit", 500, "Error processing deposit"))
       ELSE /\ Room(cap)
            /\ Goto(r, [Idle EXCEPT !.pc = "dep_create", !.op = "deposit",
                                    !.a = a, !.amount = amount,
                                    !.nb1 = accounts[a].balance + amount])
            /\ response' = response

\* the INSERT is refused when the reference number is taken or when the account
\* it names has been deleted since the handler read it (foreign key)
DepositCreate(r, n) ==
    /\ req[r].pc = "dep_create"
    /\ UNCHANGED << accounts, users, otps, now, outbox, notice >>
    /\ LET ref == generate_reference_number(deposit, n)
       IN IF ReferenceTaken(ref) \/ ~Found(req[r].a)
            THEN /\ transactions' = transactions
                 /\ Finish(r, Reply("deposit", 500, "Error processing deposit"))
            ELSE /\ transactions' = Append(transactions,
                        TransactionRow(NULL, req[r].a, "deposit", req[r].amount,
                                       ref, Some(req[r].nb1)))
                 /\ Goto(r, [req[r] EXCEPT !.pc = "dep_update"])
                 /\ response' = response

\* account_crud.update, up to its commit
DepositUpdate(r) ==
    /\ req[r].pc = "dep_update"
    /\ UNCHANGED << transactions, users, otps, now, outbox, notice >>
    /\ IF RowGone(req[r].a)
         THEN /\ accounts' = accounts
              /\ Finish(r, Reply("deposit", 500, "Error processing deposit"))
         ELSE /\ accounts' = WriteBalance(req[r].a, req[r].nb1)
              /\ Goto(r, [req[r] EXCEPT !.pc = "dep_refresh"])
              /\ response' = response

\* account_crud.update, its refresh; then the handler answers
DepositRefresh(r) ==
    /\ req[r].pc = "dep_refresh"
    /\ UNCHANGED << accounts, transactions, users, otps, now, outbox, notice >>
    /\ IF RowGone(req[r].a)
         THEN Finish(r, Reply("deposit", 500, "Error processing deposit"))
         ELSE Respond(r, "dep_notify",
                      Reply("deposit", 201, "Deposit completed successfully"))

\* the failure of the notification task surfaces in the answer
DepositNotifySurfaces(r, delivered) ==
    /\ req[r].pc = "dep_notify"
    /\ UNCHANGED << accounts, transactions, users, otps, now, outbox >>
    /\ notice' = IF delivered THEN "sent" ELSE "failed"
    /\ Finish(r, IF delivered THEN response
                 ELSE Reply("deposit", 500, "Error processing deposit"))

\* send_notification_task of deposit, run once the response is out
DepositNotify(r, delivered) ==
    /\ req[r].pc = "dep_notify"
    /\ UNCHANGED << accounts, transactions, users, otps, now, outbox >>
    /\ RunNotification(r, delivered)

\* -------------------------------------------------------------- withdraw
WithdrawStart(r, caller, a, amount, cap) ==
    /\ req[r].pc = "idle"
    /\ UNCHANGED << accounts, transactions, users, otps, now, outbox, notice >>
    /\ IF ~Found(a)
         THEN Reject(Reply("withdraw", 404, "Account not found"))
       ELSE IF AccessDenied(caller, accounts[a])
         THEN Reject(Reply("withdraw", 403, "Access denied to this account"))
       ELSE IF NotActive(accounts[a])
         THEN Reject(Reply("withdraw", 400, "Account is not active"))
       ELSE IF InsufficientBalance(accounts[a], amount)
         THEN Reject(Reply("withdraw", 400, "Insufficient balance"))
       ELSE IF AmountRejected(amount)
         THEN Reject(Reply("withdraw", 500, "Error processing withdrawal"))
       ELSE /\ Room(cap)
            /\ Goto(r, [Idle EXCEPT !.pc = "wth_create", !.op = "withdraw",
                                    !.a = a, !.amount = amount,
                                    !.nb1 = accounts[a].balance - amount])
            /\ response' = response

WithdrawCreate(r, n) ==
    /\ req[r].pc = "wth_create"
    /\ UNCHANGED << accounts, users, otps, now, outbox, notice >>
    /\ LET ref == generate_reference_number(withdrawal, n)
       IN IF ReferenceTaken(ref) \/ ~Found(req[r].a)
            THEN /\ transactions' = transactions
                 /\ Finish(r, Reply("withdraw", 500, "Error processing withdrawal"))
            ELSE /\ transactions' = Append(transactions,
                        TransactionRow(req[r].a, NULL, "withdrawal", req[r].amount,
                                       ref, Some(req[r].nb1)))
                 /\ Goto(r, [req[r] EXCEPT !.pc = "wth_update"])
                 /\ response' = response

\* account_crud.update, up to its commit
WithdrawUpdate(r) ==
    /\ req[r].pc = "wth_update"
    /\ UNCHANGED << transactions, users, otps, now, outbox, notice >>
    /\ IF RowGone(req[r].a)
         THEN /\ accounts' = accounts
              /\ Finish(r, Reply("withdraw", 500, "Error processing withdrawal"))
         ELSE /\ accounts' = WriteBalance(req[r].a, req[r].nb1)
              /\ Goto(r, [req[r] EXCEPT !.pc = "wth_refresh"])
              /\ response' = response

\* account_crud.update, its refresh; then the handler answers
WithdrawRefresh(r) ==
    /\ req[r].pc = "wth_refresh"
    /\ UNCHANGED << accounts, transactions, users, otps, now, outbox, notice >>
    /\ IF RowGone(req[r].a)
         THEN Finish(r, Reply("withdraw", 500, "Error processing withdrawal"))
         ELSE Respond(r, "wth_notify",
                      Reply("withdraw", 201, "Withdrawal completed successfully"))

\* send_notification_task of withdraw, run once the response is out
WithdrawNotify(r, delivered) ==
    /\ req[r].pc = "wth_notify"
    /\ UNCHANGED << accounts, transactions, users, otps, now, outbox >>
    /\ RunNotification(r, delivered)

\* -------------------------------------------------------------- transfer
\* get_or_404(from_account_id): the source as this request holds it from now
\* on (req[r].seen)
TransferStart(r, caller, a, b, amount, cap) ==
    /\ req[r].pc = "idle"
    /\ UNCHANGED << accounts, transactions, users, otps, now, outbox, notice >>
    /\ IF ~Found(a)
         THEN Reject(Reply("transfer", 404, "Account not found"))
         ELSE /\ Room(cap)
              /\ Goto(r, [Idle EXCEPT !.pc = "trf_load_to", !.op = "transfer",
                                      !.caller = caller, !.a = a, !.b = b,
                                      !.amount = amount, !.seen = accounts[a]])
              /\ response' = response

\* the destination as get_or_404(to_account_id) returns it: the row read now,
\* or, when it is the source, the object the session already holds
TransferDestination(r) ==
    IF req[r].b = req[r].a THEN req[r].seen ELSE accounts[req[r].b]

\* get_or_404(to_account_id), then the checks; both new balances are computed
\* before either is written
TransferLoadTo(r) ==
    /\ req[r].pc = "trf_load_to"
    /\ UNCHANGED << accounts, transactions, users, otps, now, outbox, notice >>
    /\ LET from == req[r].seen
           to == TransferDestination(r)
           amount == req[r].amount
       IN IF ~Found(req[r].b)
            THEN Finish(r, Reply("transfer", 404, "Account not found"))
          ELSE IF AccessDenied(req[r].caller, from)
            THEN Finish(r, Reply("transfer", 403, "Access denied to source account"))
          ELSE IF NotActive(from) \/ NotActive(to)
            THEN Finish(r, Reply("transfer", 400, "One or both accounts are not active"))
          ELSE IF InsufficientBalance(from, amount)
            THEN Finish(r, Reply("transfer", 400,
                                 "Insufficient balance in source account"))
          ELSE IF CurrencyMismatch(from, to)
            THEN Finish(r, Reply("transfer", 400,
                         "Cannot transfer between accounts with different currencies"))
          ELSE IF AmountRejected(amount)
            THEN Finish(r, Reply("transfer", 500, "Error processing transfer"))
          ELSE /\ Goto(r, [req[r] EXCEPT !.pc = "trf_create",
                                         !.nb1 = from.balance - amount,
                                         !.nb2 = to.balance + amount])
               /\ response' = response

TransferCreate(r, n) ==
    /\ req[r].pc = "trf_create"
    /\ UNCHANGED << accounts, users, otps, now, outbox, notice >>
    /\ LET ref == generate_reference_number(transfer, n)
       IN IF ReferenceTaken(ref) \/ ~Found(req[r].a) \/ ~Found(req[r].b)
            THEN /\ transactions' = transactions
                 /\ Finish(r, Reply("transfer", 500, "Error processing transfer"))
            ELSE /\ transactions' = Append(transactions,
                        TransactionRow(req[r].a, req[r].b, "transfer", req[r].amount,
                                       ref, Some(req[r].nb1)))
                 /\ Goto(r, [req[r] EXCEPT !.pc = "trf_debit"])
                 /\ response' = response

\* account_crud.update(from_account), up to its commit
TransferDebit(r) ==
    /\ req[r].pc = "trf_debit"
    /\ UNCHANGED << transactions, users, otps, now, outbox, notice >>
    /\ IF RowGone(req[r].a)
         THEN /\ accounts' = accounts
              /\ Finish(r, Reply("transfer", 500, "Error processing transfer"))
         ELSE /\ accounts' = WriteBalance(req[r].a, req[r].nb1)
              /\ Goto(r, [req[r] EXCEPT !.pc = "trf_debit_refresh"])
              /\ response' = response

\* account_crud.update(from_account), its refresh: the object takes the row
\* as it is now
TransferDebitRefresh(r) ==
    /\ req[r].pc = "trf_debit_refresh"
    /\ UNCHANGED << accounts, transactions, users, otps, now, outbox, notice >>
    /\ IF RowGone(req[r].a)
         THEN Finish(r, Reply("transfer", 500, "Error processing transfer"))
         ELSE /\ Goto(r, [req[r] EXCEPT !.pc = "trf_credit",
                                        !.seen = accounts[req[r].a]])
              /\ response' = response

\* account_crud.update(to_account), up to its commit.  When the destination is
\* the source and the object already holds the new balance, nothing is dirty
\* and no UPDATE is sent.
TransferCredit(r) ==
    /\ req[r].pc = "trf_credit"
    /\ UNCHANGED << transactions, users, otps, now, outbox, notice >>
    /\ IF req[r].b = req[r].a /\ req[r].seen.balance = req[r].nb2
         THEN /\ accounts' = accounts
              /\ Goto(r, [req[r] EXCEPT !.pc = "trf_credit_refresh"])
              /\ response' = response
       ELSE IF RowGone(req[r].b)
         THEN /\ accounts' = accounts
              /\ Finish(r, Reply("transfer", 500, "Error processing transfer"))
       ELSE /\ accounts' = WriteBalance(req[r].b, req[r].nb2)
            /\ Goto(r, [req[r] EXCEPT !.pc = "trf_credit_refresh"])
            /\ response' = response

\* account_crud.update(to_account), its refresh; then the handler answers
TransferCreditRefresh(r) ==
    /\ req[r].pc = "trf_credit_refresh"
    /\ UNCHANGED << accounts, transactions, users, otps, now, outbox, notice >>
    /\ IF RowGone(req[r].b)
         THEN Finish(r, Reply("transfer", 500, "Error processing transfer"))
         ELSE Respond(r, "trf_notify",
                      Reply("transfer", 201, "Transfer completed successfully"))

\* send_notification_task of transfer (sender, then recipient), run once the
\* response is out
TransferNotify(r, delivered) ==
    /\ req[r].pc = "trf_notify"
    /\ UNCHANGED << accounts, transactions, users, otps, now, outbox >>
    /\ RunNotification(r, delivered)

\* --------------------------------------------------------------- reverse
\* original_transaction as the request holds it since its get_or_404: the
\* account ids are those read then (req[r].a, req[r].b), whatever the row has
\* become; type and amount of a row never change
Original(r) ==
    [transactions[req[r].t] EXCEPT !.from_account_id = req[r].a,
                                   !.to_account_id = req[r].b]

\* the step that follows the INSERT of the reversal / the credit of the source
AfterReversalCreate(orig) ==
    IF orig.from_account_id # NULL THEN "rev_from_load"
    ELSE IF orig.to_account_id # NULL THEN "rev_to_load"
    ELSE "rev_mark"

\* mutation: the destination leg is skipped
AfterSourceLegSkipsDebit(orig) == "rev_mark"

AfterSourceLeg(orig) ==
    IF orig.to_account_id # NULL THEN "rev_to_load" ELSE "rev_mark"

ReverseStart(r, caller, t, cap) ==
    /\ req[r].pc = "idle"
    /\ UNCHANGED << accounts, transactions, users, otps, now, outbox, notice >>
    /\ IF NotAdmin(caller)
         THEN Reject(Reply("reverse", 403, "Only admins can reverse transactions"))
       ELSE IF t \notin DOMAIN transactions
         THEN Reject(Reply("reverse", 404, "Transaction not found"))
       ELSE IF NotReversible(transactions[t])
         THEN Reject(Reply("reverse", 400,
                           "Only completed transactions can be reversed"))
       ELSE IF AmountRejected(transactions[t].amount)
         THEN Reject(Reply("reverse", 500, "Error reversing transaction"))
       ELSE /\ Room(cap)
            /\ Goto(r, [Idle EXCEPT !.pc = "rev_create", !.op = "reverse", !.t = t,
                                    !.a = transactions[t].from_account_id,
                                    !.b = transactions[t].to_account_id,
                                    !.amount = transactions[t].amount])
            /\ response' = response

\* the reversal row names the accounts of the original the other way round;
\* the INSERT is refused when one of them has been deleted (foreign key)
ReverseCreate(r, n) ==
    /\ req[r].pc = "rev_create"
    /\ UNCHANGED << accounts, users, otps, now, outbox, notice >>
    /\ LET ref == generate_reference_number(reversal, n)
           orig == Original(r)
       IN IF \/ ReferenceTaken(ref)
             \/ \E a \in {orig.from_account_id, orig.to_account_id} \ {NULL} :
                    ~Found(a)
            THEN /\ transactions' = transactions
                 /\ Finish(r, Reply("reverse", 500, "Error reversing transaction"))
            ELSE /\ transactions' = Append(transactions,
                        TransactionRow(orig.to_account_id, orig.from_account_id,
                                       orig.transaction_type, orig.amount, ref, None))
                 /\ Goto(r, [req[r] EXCEPT !.pc = AfterReversalCreate(orig),
                                           !.t2 = Len(transactions) + 1])
                 /\ response' = response

\* account_crud.get(original.from_account_id); new_balance = balance + amount
ReverseLoadFrom(r) ==
    /\ req[r].pc = "rev_from_load"
    /\ UNCHANGED << accounts, transactions, response, users, otps, now, outbox, notice >>
    /\ LET orig == Original(r)
       IN IF Found(orig.from_account_id)
            THEN Goto(r, [req[r] EXCEPT
                     !.pc = "rev_from_tx",
                     !.seen = accounts[orig.from_account_id],
                     !.nb1 = accounts[orig.from_account_id].balance + orig.amount])
            ELSE Goto(r, [req[r] EXCEPT !.pc = AfterSourceLeg(orig)])

\* transaction_crud.update(reversal, {"balance_after": new_balance})
ReverseBalanceAfter(r) ==
    /\ req[r].pc = "rev_from_tx"
    /\ UNCHANGED << accounts, response, users, otps, now, outbox, notice >>
    /\ transactions' =
           [transactions EXCEPT ![req[r].t2].balance_after =
                                    Some(Numeric(req[r].nb1))]
    /\ Goto(r, [req[r] EXCEPT !.pc = "rev_from_acct"])

\* account_crud.update(from_account, {"balance": new_balance}), up to its
\* commit
ReverseCredit(r) ==
    /\ req[r].pc = "rev_from_acct"
    /\ UNCHANGED << transactions, users, otps, now, outbox, notice >>
    /\ IF RowGone(req[r].a)
         THEN /\ accounts' = accounts
              /\ Finish(r, Reply("reverse", 500, "Error reversing transaction"))
         ELSE /\ accounts' = WriteBalance(req[r].a, req[r].nb1)
              /\ Goto(r, [req[r] EXCEPT !.pc = "rev_from_refresh"])
              /\ response' = response

\* its refresh: the object takes the row as it is now
ReverseCreditRefresh(r) ==
    /\ req[r].pc = "rev_from_refresh"
    /\ UNCHANGED << accounts, transactions, users, otps, now, outbox, notice >>
    /\ IF RowGone(req[r].a)
         THEN Finish(r, Reply("reverse", 500, "Error reversing transaction"))
         ELSE /\ Goto(r, [req[r] EXCEPT !.pc = AfterSourceLeg(Original(r)),
                                        !.seen = accounts[req[r].a]])
              /\ response' = response

\* the destination as account_crud.get(original.to_account_id) returns it: the
\* row read now, or, when it is the source, the object the source leg has
\* refreshed, without reading the row again
ReverseDestination(r) ==
    IF req[r].b = req[r].a THEN req[r].seen ELSE accounts[req[r].b]

\* account_crud.get(original.to_account_id); new_balance = balance - amount
ReverseLoadTo(r) ==
    /\ req[r].pc = "rev_to_load"
    /\ UNCHANGED << accounts, transactions, response, users, otps, now, outbox, notice >>
    /\ LET orig == Original(r)
       IN IF Found(orig.to_account_id)
            THEN Goto(r, [req[r] EXCEPT
                     !.pc = "rev_to_acct",
                     !.nb2 = ReverseDestination(r).balance - orig.amount])
            ELSE Goto(r, [req[r] EXCEPT !.pc = "rev_mark"])

\* account_crud.update(to_account, {"balance": new_balance}), up to its commit
ReverseDebit(r) ==
    /\ req[r].pc = "rev_to_acct"
    /\ UNCHANGED << transactions, users, otps, now, outbox, notice >>
    /\ IF RowGone(req[r].b)
         THEN /\ accounts' = accounts
              /\ Finish(r, Reply("reverse", 500, "Error reversing transaction"))
         ELSE /\ accounts' = WriteBalance(req[r].b, req[r].nb2)
              /\ Goto(r, [req[r] EXCEPT !.pc = "rev_to_refresh"])
              /\ response' = response

\* its refresh
ReverseDebitRefresh(r) ==
    /\ req[r].pc = "rev_to_refresh"
    /\ UNCHANGED << accounts, transactions, users, otps, now, outbox, notice >>
    /\ IF RowGone(req[r].b)
         THEN Finish(r, Reply("reverse", 500, "Error reversing transaction"))
         ELSE /\ Goto(r, [req[r] EXCEPT !.pc = "rev_mark"])
              /\ response' = response

\* transaction_crud.update(original, {"status": REVERSED}), up to its commit
ReverseMark(r) ==
    /\ req[r].pc = "rev_mark"
    /\ UNCHANGED << accounts, response, users, otps, now, outbox, notice >>
    /\ transactions' = [transactions EXCEPT ![req[r].t].status = "reversed"]
    /\ Goto(r, [req[r] EXCEPT !.pc = "rev_mark_refresh"])

\* its refresh (no handler deletes a transaction), and the answer
ReverseMarkRefresh(r) ==
    /\ req[r].pc = "rev_mark_refresh"
    /\ UNCHANGED << accounts, transactions, users, otps, now, outbox, notice >>
    /\ Finish(r, Reply("reverse", 200, "Transaction reversed successfully"))

\* ------------------------------------------------------ account handlers
\* no request on any connection is about account a (a stands for the uuid a
\* new row draws)
Fresh(a) == \A q \in Requests : req[q].a # a /\ req[q].b # a

\* the bodies an update request may carry: the fields AccountUpdate reads
\* (model_dump(exclude_unset=True) keeps a field that was sent, null included)
Patches ==
    [account_number : {Absent(NULL), JsonNull(NULL)}
                          \cup {Value(n) : n \in AccountNumbers},
     balance : {Absent(0), JsonNull(0)} \cup {Value(v) : v \in PatchBalances},
     currency : {Absent(NULL), JsonNull(NULL)} \cup {Value(c) : c \in PatchCurrencies},
     status : {Absent(NULL), JsonNull(NULL)} \cup {Value(st) : st \in AccountStatus}]

\* the bodies that set one field to a value
SingleFieldPatches ==
    {p \in Patches :
        /\ Cardinality({f \in DOMAIN p : p[f].given}) = 1
        /\ \A f \in DOMAIN p : ~p[f].null}

\* the columns the UPDATE names: the fields setattr gave a value other than
\* the one the session had loaded
Dirty(acct, patch) ==
    {f \in DOMAIN patch :
        patch[f].given /\ (patch[f].null \/ patch[f].value # acct[f])}

\* the UPDATE would store NULL in a column that is NOT NULL
PatchHasNull(acct, patch) == \E f \in Dirty(acct, patch) : patch[f].null

\* the row after the UPDATE of the columns that changed
ApplyPatch(row, acct, patch) ==
    [row EXCEPT
        !.account_number = IF "account_number" \in Dirty(acct, patch)
                             THEN patch.account_number.value ELSE @,
        !.balance = IF "balance" \in Dirty(acct, patch)
                      THEN Numeric(patch.balance.value) ELSE @,
        !.currency = IF "currency" \in Dirty(acct, patch)
                       THEN patch.currency.value ELSE @,
        !.status = IF "status" \in Dirty(acct, patch)
                     THEN patch.status.value ELSE @]

\* the unique index on accounts.account_number / get_by_account_number
NumberTaken(n) ==
    \E x \in AccountIds : accounts[x].exists /\ accounts[x].account_number = n

\* the UPDATE would give the row a number that another row carries
PatchNumberTaken(a, acct, patch) ==
    /\ "account_number" \in Dirty(acct, patch)
    /\ ~patch.account_number.null
    /\ \E x \in AccountIds \ {a} :
           accounts[x].exists /\ accounts[x].account_number = patch.account_number.value

\* one round of create_account's loop: draw a number and look it up
CreateAccountAttempt(r, fields, n) ==
    IF ~NumberTaken(n)
      THEN /\ Goto(r, [fields EXCEPT !.pc = "acc_insert", !.seen.account_number = n])
           /\ response' = response
    ELSE IF fields.attempt = max_attempts - 1
      THEN Finish(r, Reply("create_account", 500,
                           "Failed to generate unique account number"))
    ELSE /\ Goto(r, [fields EXCEPT !.pc = "acc_number", !.attempt = @ + 1])
         /\ response' = response

\* POST /accounts/: the row takes balance, currency and status from the
\* request body.  (The 201 names the account number; so do the answers of
\* update, close and freeze.)
CreateAccountStart(r, caller, a, balance, currency, status, n) ==
    /\ req[r].pc = "idle"
    /\ ~Found(a)
    /\ Fresh(a)
    /\ UNCHANGED << accounts, transactions, users, otps, now, outbox, notice >>
    /\ IF UserRole(caller) = "customer" /\ OwnerOf(a) # caller
         THEN Reject(Reply("create_account", 403,
                           "You can only create accounts for yourself"))
         ELSE CreateAccountAttempt(r,
                  [Idle EXCEPT !.op = "create_account", !.caller = caller, !.a = a,
                               !.seen = [exists |-> TRUE, user_id |-> OwnerOf(a),
                                         account_number |-> NULL,
                                         balance |-> balance, currency |-> currency,
                                         status |-> status]],
                  n)

\* the next round of the loop
CreateAccountNumber(r, n) ==
    /\ req[r].pc = "acc_number"
    /\ UNCHANGED << accounts, transactions, users, otps, now, outbox, notice >>
    /\ CreateAccountAttempt(r, req[r], n)

\* BaseCRUD.create: add and commit
CreateAccountInsert(r) ==
    /\ req[r].pc = "acc_insert"
    /\ UNCHANGED << transactions, users, otps, now, outbox, notice >>
    /\ IF NumberTaken(req[r].seen.account_number)
         THEN /\ accounts' = accounts
              /\ Finish(r, Reply("create_account", 500, "Error creating account"))
         ELSE /\ accounts' = [accounts EXCEPT ![req[r].a] =
                      [req[r].seen EXCEPT !.balance = Numeric(@)]]
              /\ Goto(r, [req[r] EXCEPT !.pc = "acc_refresh"])
              /\ response' = response

\* BaseCRUD.create: refresh
CreateAccountRefresh(r) ==
    /\ req[r].pc = "acc_refresh"
    /\ UNCHANGED << accounts, transactions, users, otps, now, outbox, notice >>
    /\ IF RowGone(req[r].a)
         THEN Finish(r, Reply("create_account", 500, "Error creating account"))
         ELSE Finish(r, Reply("create_account", 201, "Account created successfully"))

\* PUT /accounts/{id}: get_or_404 and the access check
UpdateAccountStart(r, caller, a, patch) ==
    /\ req[r].pc = "idle"
    /\ UNCHANGED << accounts, transactions, users, otps, now, outbox, notice >>
    /\ IF ~Found(a)
         THEN Reject(Reply("update_account", 404, "Account not found"))
       ELSE IF AccessDenied(caller, accounts[a])
         THEN Reject(Reply("update_account", 403, "Access denied to this account"))
       ELSE /\ Goto(r, [Idle EXCEPT !.pc = "upd_commit", !.op = "update_account",
                                    !.caller = caller, !.a = a,
                                    !.seen = accounts[a], !.patch = patch])
            /\ response' = response

\* BaseCRUD.update: setattr and commit
UpdateAccountCommit(r) ==
    /\ req[r].pc = "upd_commit"
    /\ UNCHANGED << transactions, users, otps, now, outbox, notice >>
    /\ IF Dirty(req[r].seen, req[r].patch) = {}
         THEN /\ accounts' = accounts
              /\ Goto(r, [req[r] EXCEPT !.pc = "upd_refresh"])
              /\ response' = response
       ELSE IF \/ RowGone(req[r].a)
               \/ PatchHasNull(req[r].seen, req[r].patch)
               \/ PatchNumberTaken(req[r].a, req[r].seen, req[r].patch)
         THEN /\ accounts' = accounts
              /\ Finish(r, Reply("update_account", 500, "Error updating account"))
       ELSE /\ accounts' = [accounts EXCEPT ![req[r].a] =
                               ApplyPatch(@, req[r].seen, req[r].patch)]
            /\ Goto(r, [req[r] EXCEPT !.pc = "upd_refresh"])
            /\ response' = response

\* BaseCRUD.update: refresh
UpdateAccountRefresh(r) ==
    /\ req[r].pc = "upd_refresh"
    /\ UNCHANGED << accounts, transactions, users, otps, now, outbox, notice >>
    /\ IF RowGone(req[r].a)
         THEN Finish(r, Reply("update_account", 500, "Error updating account"))
         ELSE Finish(r, Reply("update_account", 200, "Account updated successfully"))

\* POST /accounts/{id}/close: every HTTPException is re-raised as a 404
CloseAccountStart(r, caller, a) ==
    /\ req[r].pc = "idle"
    /\ UNCHANGED << accounts, transactions, users, otps, now, outbox, notice >>
    /\ IF ~Found(a) \/ AccessDenied(caller, accounts[a])
         THEN Reject(Reply("close_account", 404, "Account not found"))
         ELSE /\ Goto(r, [Idle EXCEPT !.pc = "cls_commit", !.op = "close_account",
                                      !.caller = caller, !.a = a,
                                      !.seen = accounts[a]])
              /\ response' = response

\* BaseCRUD.update(account, {"status": CLOSED}): setattr and commit
CloseAccountCommit(r) ==
    /\ req[r].pc = "cls_commit"
    /\ UNCHANGED << transactions, users, otps, now, outbox, notice >>
    /\ IF req[r].seen.status = "closed"
         THEN /\ accounts' = accounts
              /\ Goto(r, [req[r] EXCEPT !.pc = "cls_refresh"])
              /\ response' = response
       ELSE IF RowGone(req[r].a)
         THEN /\ accounts' = accounts
              /\ Finish(r, Reply("close_account", 500, "Error closing account"))
       ELSE /\ accounts' = WriteStatus(req[r].a, "closed")
            /\ Goto(r, [req[r] EXCEPT !.pc = "cls_refresh"])
            /\ response' = response

\* BaseCRUD.update: refresh
CloseAccountRefresh(r) ==
    /\ req[r].pc = "cls_refresh"
    /\ UNCHANGED << accounts, transactions, users, otps, now, outbox, notice >>
    /\ IF RowGone(req[r].a)
         THEN Finish(r, Reply("close_account", 500, "Error closing account"))
         ELSE Finish(r, Reply("close_account", 200, "Account closed successfully"))

\* POST /admin/accounts/{id}/freeze: get_current_admin answers 403; inside the
\* handler "except Exception" turns its own 404 and 400 into a 500
FreezeAccountStart(r, caller, a) ==
    /\ req[r].pc = "idle"
    /\ UNCHANGED << accounts, transactions, users, otps, now, outbox, notice >>
    /\ IF NotAdmin(caller)
         THEN Reject(Reply("freeze_account", 403, "Forbidden: You are not an admin"))
       ELSE IF ~Found(a) \/ accounts[a].status = "frozen"
         THEN Reject(Reply("freeze_account", 500, "Error freezing account"))
       ELSE /\ Goto(r, [Idle EXCEPT !.pc = "frz_commit", !.op = "freeze_account",
                                    !.caller = caller, !.a = a,
                                    !.seen = accounts[a]])
            /\ response' = response

\* BaseCRUD.update(account, {"status": FROZEN}): setattr and commit (the
\* session saw another status, so the column is written)
FreezeAccountCommit(r) ==
    /\ req[r].pc = "frz_commit"
    /\ UNCHANGED << transactions, users, otps, now, outbox, notice >>
    /\ IF RowGone(req[r].a)
         THEN /\ accounts' = accounts
              /\ Finish(r, Reply("freeze_account", 500, "Error freezing account"))
         ELSE /\ accounts' = WriteStatus(req[r].a, "frozen")
              /\ Goto(r, [req[r] EXCEPT !.pc = "frz_refresh"])
              /\ response' = response

\* BaseCRUD.update: refresh
FreezeAccountRefresh(r) ==
    /\ req[r].pc = "frz_refresh"
    /\ UNCHANGED << accounts, transactions, users, otps, now, outbox, notice >>
    /\ IF RowGone(req[r].a)
         THEN Finish(r, Reply("freeze_account", 500, "Error freezing account"))
         ELSE Finish(r, Reply("freeze_account", 200, "Account frozen successfully"))

\* transaction_crud.filter on to_account_id and on from_account_id; the
\* collections to_transactions and from_transactions of an account
Incoming(a) == {t \in DOMAIN transactions : transactions[t].to_account_id = a}
Outgoing(a) == {t \in DOMAIN transactions : transactions[t].from_account_id = a}

\* the UPDATEs a flush issues for a deleted account under the default
\* relationship cascade: the rows it loaded into the two collections lose the
\* reference and keep their place
Orphaned(rows, from_rows, to_rows) ==
    [t \in DOMAIN rows |->
        [rows[t] EXCEPT
            !.from_account_id = IF t \in from_rows THEN NULL ELSE @,
            !.to_account_id = IF t \in to_rows THEN NULL ELSE @]]

\* DELETE /accounts/{id}: every HTTPException is re-raised as a 404
DeleteAccountStart(r, caller, a) ==
    /\ req[r].pc = "idle"
    /\ UNCHANGED << accounts, transactions, users, otps, now, outbox, notice >>
    /\ IF ~Found(a) \/ AccessDenied(caller, accounts[a])
         THEN Reject(Reply("delete_account", 404, "Account not found"))
         ELSE /\ Goto(r, [Idle EXCEPT !.pc = "del_load", !.op = "delete_account",
                                      !.caller = caller, !.a = a,
                                      !.seen = accounts[a]])
              /\ response' = response

\* BaseCRUD.delete: its own SELECT of the row
DeleteAccountLoad(r) ==
    /\ req[r].pc = "del_load"
    /\ UNCHANGED << accounts, transactions, users, otps, now, outbox, notice >>
    /\ IF ~Found(req[r].a)
         THEN Finish(r, Reply("delete_account", 404, "Account not found"))
         ELSE /\ Goto(r, [req[r] EXCEPT !.pc = "del_flush"])
              /\ response' = response

\* BaseCRUD.delete: db.delete and the flush of the commit, which loads the
\* two collections of the account, each with a SELECT of its own, in the
\* order the model declares them: from_transactions here
DeleteAccountFlush(r) ==
    /\ req[r].pc = "del_flush"
    /\ UNCHANGED << accounts, transactions, response, users, otps, now, outbox,
                    notice >>
    /\ Goto(r, [req[r] EXCEPT !.pc = "del_flush_to",
                    !.from_rows = Outgoing(req[r].a)])

\* the flush loads to_transactions
DeleteAccountFlushTo(r) ==
    /\ req[r].pc = "del_flush_to"
    /\ UNCHANGED << accounts, transactions, response, users, otps, now, outbox,
                    notice >>
    /\ Goto(r, [req[r] EXCEPT !.pc = "del_commit",
                    !.to_rows = Incoming(req[r].a)])

\* BaseCRUD.delete: the rest of the commit, one database transaction: the
\* UPDATEs of the rows loaded and the DELETE of the account.  A row stored
\* since the flush loaded a collection still names the account: the
\* foreign key refuses the DELETE and the transaction is rolled back.  (A
\* DELETE that matches no row is not an error.)
DeleteAccountCommit(r) ==
    /\ req[r].pc = "del_commit"
    /\ UNCHANGED << users, otps, now, outbox, notice >>
    /\ LET rows == Orphaned(transactions, req[r].from_rows, req[r].to_rows)
       IN IF /\ Found(req[r].a)
             /\ \E t \in DOMAIN rows :
                    req[r].a \in {rows[t].from_account_id, rows[t].to_account_id}
            THEN /\ UNCHANGED << accounts, transactions >>
                 /\ Finish(r, Reply("delete_account", 500, "Error deleting account"))
            ELSE /\ accounts' = [accounts EXCEPT ![req[r].a] = NoAccount]
                 /\ transactions' = rows
                 /\ Finish(r, Reply("delete_account", 204, "No Content"))

\* ---- the handlers that read
\* a call of BaseCRUD.filter: the table, the column compared with a value
\* (NULL: no filter), the offset and the limit
Query(table, column, value, skip, limit) ==
    [table |-> table, column |-> column, value |-> value, skip |-> skip,
     limit |-> limit]

\* the number of rows a query matches
Matching(q) ==
    IF q.table = "accounts"
      THEN Cardinality({a \in AccountIds :
                           Found(a) /\ accounts[a][q.column] = q.value})
      ELSE Cardinality({t \in DOMAIN transactions :
                           q.column = NULL \/ transactions[t][q.column] = q.value})

\* OFFSET skip LIMIT limit over n rows, and list[skip : skip + limit] over a
\* list of n: the number of rows kept
PageOf(n, skip, limit) ==
    LET rest == IF n > skip THEN n - skip ELSE 0
    IN IF rest > limit THEN limit ELSE rest

\* the two filters list_transactions runs for each account of a customer
RECURSIVE AccountQueries(_)
AccountQueries(ids) ==
    IF ids = {} THEN << >>
    ELSE LET a == CHOOSE x \in ids : TRUE
         IN << Query("transactions", "to_account_id", a, 0, 1000),
               Query("transactions", "from_account_id", a, 0, 1000) >>
                \o AccountQueries(ids \ {a})

\* the body of a TransactionList: total_count and the rows in data
TransactionList(total_count, data) ==
    Reply("list_transactions", 200,
          "total_count " \o ToString(total_count) \o ", data " \o ToString(data))

\* BaseCRUD.filter: the SELECT of the rows, with the limit capped at 20
FilterItems(r) ==
    /\ req[r].pc = "flt_items"
    /\ UNCHANGED << accounts, transactions, response, users, otps, now, outbox,
                    notice >>
    /\ LET q == Head(req[r].queries)
       IN Goto(r, [req[r] EXCEPT
               !.pc = "flt_count",
               !.found = @ + PageOf(Matching(q), q.skip,
                                    IF q.limit > 20 THEN 20 ELSE q.limit)])

\* BaseCRUD.filter: the SELECT of the count, and the handler up to its next
\* await.  After its last query get_statement returns the rows themselves
\* where AccountStatement declares List[dict], so that an answer with a row
\* fails the validation of the response; list_transactions cuts its window
\* out of the rows collected and counts them, and answers an administrator
\* who names no account with the rows and the count of its one query
FilterCount(r) ==
    /\ req[r].pc = "flt_count"
    /\ UNCHANGED << accounts, transactions, users, otps, now, outbox, notice >>
    /\ IF Tail(req[r].queries) # << >>
         THEN /\ Goto(r, [req[r] EXCEPT !.pc = "flt_items", !.queries = Tail(@)])
              /\ response' = response
       ELSE IF req[r].op = "get_statement"
         THEN Finish(r, IF req[r].found > 0
                          THEN Reply("get_statement", 500, "Internal Server Error")
                          ELSE Reply("get_statement", 200, "no transactions"))
       ELSE IF req[r].a = NULL /\ UserRole(req[r].caller) = "admin"
         THEN Finish(r, TransactionList(Matching(Head(req[r].queries)),
                                        req[r].found))
       ELSE Finish(r, TransactionList(req[r].found,
                          PageOf(req[r].found, req[r].skip, req[r].per_page)))

\* the account check the read handlers start with
ReadDenied(op, caller, a) ==
    IF ~Found(a) THEN Reply(op, 404, "Account not found")
    ELSE IF AccessDenied(caller, accounts[a])
      THEN Reply(op, 403, "Access denied to this account")
    ELSE NoResponse

\* GET /accounts/{id}
GetAccount(caller, a) ==
    /\ UNCHANGED << accounts, transactions, req, users, otps, now, outbox, notice >>
    /\ response' = IF ReadDenied("get_account", caller, a) # NoResponse
                     THEN ReadDenied("get_account", caller, a)
                     ELSE Reply("get_account", 200, accounts[a].status)

\* GET /accounts/{id}/balance
GetBalance(caller, a) ==
    /\ UNCHANGED << accounts, transactions, req, users, otps, now, outbox, notice >>
    /\ response' = IF ReadDenied("get_balance", caller, a) # NoResponse
                     THEN ReadDenied("get_balance", caller, a)
                     ELSE Reply("get_balance", 200, ToString(accounts[a].balance))

\* GET /accounts/{id}/statement: get_or_404, the access check and the dates;
\* the incoming rows and the outgoing ones are then read with limit=100
GetStatementStart(r, caller, a, dates_parse) ==
    /\ req[r].pc = "idle"
    /\ UNCHANGED << accounts, transactions, users, otps, now, outbox, notice >>
    /\ IF ReadDenied("get_statement", caller, a) # NoResponse
         THEN Reject(ReadDenied("get_statement", caller, a))
       ELSE IF ~dates_parse
         THEN Reject(Reply("get_statement", 400,
                           "Invalid date format. Use YYYY-MM-DD"))
       ELSE /\ Goto(r, [Idle EXCEPT
                    !.pc = "flt_items", !.op = "get_statement",
                    !.caller = caller, !.a = a,
                    !.queries =
                        << Query("transactions", "to_account_id", a, 0, 100),
                           Query("transactions", "from_account_id", a, 0, 100) >>])
            /\ response' = response

\* GET /transactions/: page and per_page are put right, and the handler runs
\* up to the end of its first await: with an account_id get_or_404 and the
\* access check; for a customer without one the SELECT of the customer's
\* accounts; for an administrator without one the SELECT of the rows
ListTransactionsStart(r, caller, account_id, page, per_page) ==
    /\ req[r].pc = "idle"
    /\ UNCHANGED << accounts, transactions, users, otps, now, outbox, notice >>
    /\ LET size == IF per_page < 1 \/ per_page > 50 THEN 10 ELSE per_page
           skip == ((IF page < 1 THEN 1 ELSE page) - 1) * size
           fields == [Idle EXCEPT !.op = "list_transactions", !.caller = caller,
                                  !.a = account_id, !.skip = skip,
                                  !.per_page = size]
           all == Query("transactions", NULL, NULL, skip, size)
       IN IF account_id # NULL
            THEN IF ReadDenied("list_transactions", caller, account_id) # NoResponse
                   THEN Reject(ReadDenied("list_transactions", caller, account_id))
                   ELSE /\ Goto(r, [fields EXCEPT
                                !.pc = "flt_items",
                                !.queries =
                                    << Query("transactions", "to_account_id",
                                             account_id, skip, size),
                                       Query("transactions", "from_account_id",
                                             account_id, skip, size) >>])
                        /\ response' = response
          ELSE IF UserRole(caller) = "customer"
            THEN /\ Goto(r, [fields EXCEPT
                         !.pc = "flt_count",
                         !.queries =
                             << Query("accounts", "user_id", caller, 0, 100) >>
                                 \o AccountQueries({a \in AccountIds :
                                        Found(a) /\ accounts[a].user_id = caller})])
                 /\ response' = response
          ELSE /\ Goto(r, [fields EXCEPT
                       !.pc = "flt_count",
                       !.queries = << all >>,
                       !.found = PageOf(Matching(all), all.skip,
                                        IF all.limit > 20 THEN 20 ELSE all.limit)])
               /\ response' = response

\* ------------------------------------------------- users and their OTPs
OTP_LIFESPAN == 10
RESET_LIFESPAN == 15

\* security.get_password_hash
get_password_hash(password) == << "bcrypt", password >>

\* security.verify_password
verify_password(password, hashed_password) ==
    hashed_password = get_password_hash(password)

\* otp_crud.get_by(filters={"email": email}): the rows with this address
OtpsOf(email) == {o \in otps : o.email = email}

\* BaseCRUD.get: the rows with this id
OtpsWithId(id) == {o \in otps : o.id = id}

\* the unique index on otps.email refuses the INSERT
EmailTaken(email) == OtpsOf(email) # {}

\* "OTP has expired"
Expired(otp) == otp.is_expired \/ otp.expires_on < now

\* "Incorrect OTP code." / "Incorrect reset code."
CodeMismatch(otp, code) == otp.otp_code # code

\* the row OtpCreate describes, built when the handler draws the code; the id
\* is drawn when the row is inserted
OtpRow(email, code, lifespan) ==
    [id |-> 0, email |-> email, otp_code |-> code,
     expires_on |-> now + lifespan, is_expired |-> FALSE]

\* uuid.uuid4: an id that no row carries and no session holds
NewOtpId ==
    CHOOSE i \in 1..(Cardinality(Requests) + Cardinality(Emails) + 1) :
        /\ OtpsWithId(i) = {}
        /\ \A q \in Requests : req[q].otp.id # i

\* the bound MaxOtps leaves room for the e-mail this request is about to ask
\* for
OtpRoom ==
    Len(outbox)
        + Cardinality({q \in Requests :
              req[q].op \in {"register", "send_otp", "request_password_reset"}})
        < MaxOtps

\* ---- BaseCRUD on the table otps
\* BaseCRUD.create: add and commit (the exception is re-raised and no handler
\* catches it)
OtpInsert(r) ==
    /\ req[r].pc = "otp_insert"
    /\ UNCHANGED << accounts, transactions, users, now, outbox, notice >>
    /\ IF EmailTaken(req[r].otp.email)
         THEN /\ otps' = otps
              /\ Finish(r, Reply(req[r].op, 500, "Internal Server Error"))
         ELSE /\ otps' = otps \cup {[req[r].otp EXCEPT !.id = NewOtpId]}
              /\ Goto(r, [req[r] EXCEPT !.pc = "otp_refresh", !.otp.id = NewOtpId])
              /\ response' = response

\* BaseCRUD.create: refresh, and the handler up to its next await: register
\* goes on to send its e-mail; send_otp and request_password_reset hand the
\* e-mail to a background task and answer
OtpRefresh(r) ==
    /\ req[r].pc = "otp_refresh"
    /\ UNCHANGED << accounts, transactions, users, otps, now, outbox, notice >>
    /\ IF OtpsWithId(req[r].otp.id) = {}
         THEN Finish(r, Reply(req[r].op, 500, "Internal Server Error"))
       ELSE IF req[r].op = "register"
         THEN /\ Goto(r, [req[r] EXCEPT !.pc = "reg_mail"])
              /\ response' = response
       ELSE IF req[r].op = "send_otp"
         THEN Respond(r, "otp_mail",
                      Reply("send_otp", 200,
                            "OTP sent. Check your email to activate your account."))
       ELSE Respond(r, "otp_mail",
                    Reply("request_password_reset", 200,
                          "A password reset code has been sent to your email."))

\* send_email_task / send_reset_email_task: the background task e-mails the
\* code, or logs the exception
OtpMail(r, delivered) ==
    /\ req[r].pc = "otp_mail"
    /\ UNCHANGED << accounts, transactions, users, otps, now, notice >>
    /\ outbox' = IF delivered
                   THEN Append(outbox, [email_to |-> req[r].otp.email,
                                        verify_code |-> req[r].otp.otp_code])
                   ELSE outbox
    /\ Finish(r, response)

\* BaseCRUD.delete: its own SELECT of the row; the 404 is caught by no handler
OtpDeleteLoad(r) ==
    /\ req[r].pc = "otp_del_load"
    /\ UNCHANGED << accounts, transactions, users, otps, now, outbox, notice >>
    /\ IF OtpsWithId(req[r].otp.id) = {}
         THEN Finish(r, Reply(req[r].op, 404,
                  "Otp with ID " \o ToString(req[r].otp.id) \o " not found"))
         ELSE /\ Goto(r, [req[r] EXCEPT !.pc = "otp_del_commit"])
              /\ response' = response

\* BaseCRUD.delete: db.delete and commit (a DELETE that matches no row is not
\* an error), and the handler up to its next await: send_otp and
\* request_password_reset draw the code and build the new row,
\* confirm_registration goes on to write the user, confirm_password_reset
\* answers
OtpDeleteCommit(r, code) ==
    /\ req[r].pc = "otp_del_commit"
    /\ UNCHANGED << accounts, transactions, users, now, outbox, notice >>
    /\ otps' = otps \ OtpsWithId(req[r].otp.id)
    /\ IF req[r].op = "send_otp"
         THEN /\ Goto(r, [req[r] EXCEPT !.pc = "otp_insert",
                             !.otp = OtpRow(req[r].email, code, OTP_LIFESPAN)])
              /\ response' = response
       ELSE IF req[r].op = "request_password_reset"
         THEN /\ Goto(r, [req[r] EXCEPT !.pc = "otp_insert",
                             !.otp = OtpRow(req[r].email, code, RESET_LIFESPAN)])
              /\ response' = response
       ELSE IF req[r].op = "confirm_registration"
         THEN /\ Goto(r, [req[r] EXCEPT !.pc = "cnf_activate"])
              /\ response' = response
       ELSE Finish(r, Reply("confirm_password_reset", 200,
                "Password successfully reset. You can now login with your new password."))

\* BaseCRUD.update(otp, {"is_expired": True}): setattr and commit; a row the
\* session loaded as flagged is not written; an UPDATE that matches no row
\* raises, and no handler catches it
OtpFlagCommit(r) ==
    /\ req[r].pc = "otp_flag_commit"
    /\ UNCHANGED << accounts, transactions, users, now, outbox, notice >>
    /\ IF req[r].otp.is_expired
         THEN /\ otps' = otps
              /\ Goto(r, [req[r] EXCEPT !.pc = "otp_flag_refresh"])
              /\ response' = response
       ELSE IF OtpsWithId(req[r].otp.id) = {}
         THEN /\ otps' = otps
              /\ Finish(r, Reply(req[r].op, 500, "Internal Server Error"))
       ELSE /\ otps' = {IF o.id = req[r].otp.id
                          THEN [o EXCEPT !.is_expired = TRUE] ELSE o : o \in otps}
            /\ Goto(r, [req[r] EXCEPT !.pc = "otp_flag_refresh"])
            /\ response' = response

\* BaseCRUD.update: refresh, and the 400 the handler raises after it
OtpFlagRefresh(r) ==
    /\ req[r].pc = "otp_flag_refresh"
    /\ UNCHANGED << accounts, transactions, users, otps, now, outbox, notice >>
    /\ IF OtpsWithId(req[r].otp.id) = {}
         THEN Finish(r, Reply(req[r].op, 500, "Internal Server Error"))
       ELSE IF req[r].op = "confirm_registration"
         THEN Finish(r, Reply("confirm_registration", 400,
                              "OTP has expired. Please request a new OTP."))
       ELSE Finish(r, Reply("confirm_password_reset", 400,
                            "Reset code has expired. Please request a new one."))

\* CRUDUser.create / BaseCRUD.update: the refresh of the user row (no handler
\* deletes a user), and the handler up to its next await: register draws the
\* code and builds the OTP row
UserRefresh(r, code) ==
    /\ req[r].pc = "usr_refresh"
    /\ UNCHANGED << accounts, transactions, users, otps, response, now, outbox,
                    notice >>
    /\ IF req[r].op = "register"
         THEN Goto(r, [req[r] EXCEPT !.pc = "otp_insert",
                          !.user = users[req[r].email],
                          !.otp = OtpRow(req[r].email, code, OTP_LIFESPAN)])
       ELSE IF req[r].op = "confirm_registration"
         THEN Goto(r, [req[r] EXCEPT !.pc = "cnf_welcome",
                          !.user = users[req[r].email]])
       ELSE Goto(r, [req[r] EXCEPT !.pc = "otp_del_load",
                        !.user = users[req[r].email]])

\* ---- register (the 201 names the address)
RegisterStart(r, email, password, confirm_password) ==
    /\ req[r].pc = "idle"
    /\ UNCHANGED << accounts, transactions, users, otps, now, outbox, notice >>
    /\ IF password # confirm_password
         THEN Reject(Reply("register", 400, "Passwords do not match"))
       ELSE IF users[email].exists
         THEN Reject(Reply("register", 400,
                  "A user with this email already exists! If this is your account, request an OTP to activate your account"))
       ELSE /\ OtpRoom
            /\ Goto(r, [Idle EXCEPT !.pc = "reg_user", !.op = "register",
                                    !.email = email, !.password = password])
            /\ response' = response

\* CRUDUser.create: add and commit; the unique index on users.email refuses
\* the row when another request has stored the address since the lookup
RegisterUser(r) ==
    /\ req[r].pc = "reg_user"
    /\ UNCHANGED << accounts, transactions, otps, now, outbox, notice >>
    /\ IF users[req[r].email].exists
         THEN /\ users' = users
              /\ Finish(r, Reply("register", 500, "Internal Server Error"))
         ELSE /\ users' = [users EXCEPT ![req[r].email] =
                              [exists |-> TRUE, is_active |-> TRUE,
                               hashed_password |-> get_password_hash(req[r].password)]]
              /\ Goto(r, [req[r] EXCEPT !.pc = "usr_refresh"])
              /\ response' = response

\* await send_email_verification_code inside try/except
RegisterMail(r, delivered) ==
    /\ req[r].pc = "reg_mail"
    /\ UNCHANGED << accounts, transactions, users, otps, now, notice >>
    /\ IF delivered
         THEN /\ outbox' = Append(outbox, [email_to |-> req[r].otp.email,
                                           verify_code |-> req[r].otp.otp_code])
              /\ Finish(r, Reply("register", 201,
                     "Registration successful. Check your email for OTP to activate your account."))
         ELSE /\ outbox' = outbox
              /\ Finish(r, Reply("register", 500, "Failed to send verification email"))

\* ---- send_otp
SendOtpStart(r, email) ==
    /\ req[r].pc = "idle"
    /\ UNCHANGED << accounts, transactions, users, otps, now, outbox, notice >>
    /\ IF ~users[email].exists
         THEN Reject(Reply("send_otp", 400,
                           "User does not exist. Please register first."))
         ELSE /\ OtpRoom
              /\ Goto(r, [Idle EXCEPT !.pc = "sot_load", !.op = "send_otp",
                                      !.email = email, !.user = users[email]])
              /\ response' = response

\* otp_crud.get_by: the OTP of the address is deleted first; with none stored
\* the handler draws the code and builds the new row
SendOtpLoad(r, code) ==
    /\ req[r].pc = "sot_load"
    /\ UNCHANGED << accounts, transactions, users, otps, response, now, outbox,
                    notice >>
    /\ IF OtpsOf(req[r].email) # {}
         THEN Goto(r, [req[r] EXCEPT !.pc = "otp_del_load",
                          !.otp = CHOOSE o \in OtpsOf(req[r].email) : TRUE])
         ELSE Goto(r, [req[r] EXCEPT !.pc = "otp_insert",
                          !.otp = OtpRow(req[r].email, code, OTP_LIFESPAN)])

\* ---- request_password_reset
RequestPasswordResetStart(r, email) ==
    /\ req[r].pc = "idle"
    /\ UNCHANGED << accounts, transactions, users, otps, now, outbox, notice >>
    /\ IF ~users[email].exists
         THEN Reject(Reply("request_password_reset", 200,
                           "A password reset code has been sent to your email."))
         ELSE /\ OtpRoom
              /\ Goto(r, [Idle EXCEPT !.pc = "rst_load",
                                      !.op = "request_password_reset",
                                      !.email = email, !.user = users[email]])
              /\ response' = response

RequestPasswordResetLoad(r, code) ==
    /\ req[r].pc = "rst_load"
    /\ UNCHANGED << accounts, transactions, users, otps, response, now, outbox,
                    notice >>
    /\ IF OtpsOf(req[r].email) # {}
         THEN Goto(r, [req[r] EXCEPT !.pc = "otp_del_load",
                          !.otp = CHOOSE o \in OtpsOf(req[r].email) : TRUE])
         ELSE Goto(r, [req[r] EXCEPT !.pc = "otp_insert",
                          !.otp = OtpRow(req[r].email, code, RESET_LIFESPAN)])

\* ---- confirm_registration
ConfirmRegistrationStart(r, email, code) ==
    /\ req[r].pc = "idle"
    /\ UNCHANGED << accounts, transactions, users, otps, now, outbox, notice >>
    /\ IF ~users[email].exists
         THEN Reject(Reply("confirm_registration", 400,
                           "User does not exist or wrong email"))
         ELSE /\ Goto(r, [Idle EXCEPT !.pc = "cnf_load",
                                      !.op = "confirm_registration",
                                      !.email = email, !.code = code,
                                      !.user = users[email]])
              /\ response' = response

\* otp_crud.get_by and the checks on the row it returns
ConfirmRegistrationLoad(r) ==
    /\ req[r].pc = "cnf_load"
    /\ UNCHANGED << accounts, transactions, users, otps, now, outbox, notice >>
    /\ IF OtpsOf(req[r].email) = {}
         THEN Finish(r, Reply("confirm_registration", 400,
                              "OTP not found. Please request a new OTP."))
       ELSE LET otp == CHOOSE o \in OtpsOf(req[r].email) : TRUE
            IN IF Expired(otp)
                 THEN /\ Goto(r, [req[r] EXCEPT !.pc = "otp_flag_commit",
                                     !.otp = otp])
                      /\ response' = response
               ELSE IF CodeMismatch(otp, req[r].code)
                 THEN Finish(r, Reply("confirm_registration", 400,
                                      "Incorrect OTP code."))
               ELSE /\ Goto(r, [req[r] EXCEPT !.pc = "otp_del_load", !.otp = otp])
                    /\ response' = response

\* user_crud.update(user, {"is_active": True}): setattr and commit; a user the
\* session loaded as active is not written
ConfirmRegistrationActivate(r) ==
    /\ req[r].pc = "cnf_activate"
    /\ UNCHANGED << accounts, transactions, otps, response, now, outbox, notice >>
    /\ users' = IF req[r].user.is_active
                  THEN users
                  ELSE [users EXCEPT ![req[r].email].is_active = TRUE]
    /\ Goto(r, [req[r] EXCEPT !.pc = "usr_refresh"])

\* await send_welcome_email inside try/except: the exception is logged and
\* the answer is the same
ConfirmRegistrationWelcome(r, delivered) ==
    /\ req[r].pc = "cnf_welcome"
    /\ UNCHANGED << accounts, transactions, users, otps, now, outbox, notice >>
    /\ Finish(r, Reply("confirm_registration", 200,
                       "Account successfully activated. Please proceed to login!"))

\* ---- confirm_password_reset
ConfirmPasswordResetStart(r, email, code, new_password, confirm_password) ==
    /\ req[r].pc = "idle"
    /\ UNCHANGED << accounts, transactions, users, otps, now, outbox, notice >>
    /\ IF new_password # confirm_password
         THEN Reject(Reply("confirm_password_reset", 400, "Passwords do not match"))
       ELSE IF ~users[email].exists
         THEN Reject(Reply("confirm_password_reset", 400, "User does not exist"))
       ELSE /\ Goto(r, [Idle EXCEPT !.pc = "rsc_load",
                                    !.op = "confirm_password_reset",
                                    !.email = email, !.code = code,
                                    !.password = new_password,
                                    !.user = users[email]])
            /\ response' = response

\* otp_crud.get_by and the checks on the row it returns
ConfirmPasswordResetLoad(r) ==
    /\ req[r].pc = "rsc_load"
    /\ UNCHANGED << accounts, transactions, users, otps, now, outbox, notice >>
    /\ IF OtpsOf(req[r].email) = {}
         THEN Finish(r, Reply("confirm_password_reset", 400,
                              "Reset code not found. Please request a new one."))
       ELSE LET otp == CHOOSE o \in OtpsOf(req[r].email) : TRUE
            IN IF Expired(otp)
                 THEN /\ Goto(r, [req[r] EXCEPT !.pc = "otp_flag_commit",
                                     !.otp = otp])
                      /\ response' = response
               ELSE IF CodeMismatch(otp, req[r].code)
                 THEN Finish(r, Reply("confirm_password_reset", 400,
                                      "Incorrect reset code."))
               ELSE /\ Goto(r, [req[r] EXCEPT !.pc = "rsc_update", !.otp = otp])
                    /\ response' = response

\* user_crud.update(user, {"hashed_password": ...}): setattr and commit
ConfirmPasswordResetUpdate(r) ==
    /\ req[r].pc = "rsc_update"
    /\ UNCHANGED << accounts, transactions, otps, response, now, outbox, notice >>
    /\ users' = [users EXCEPT ![req[r].email].hashed_password =
                                  get_password_hash(req[r].password)]
    /\ Goto(r, [req[r] EXCEPT !.pc = "usr_refresh"])

\* ---- login: the lookup of the name as it was typed
LoginStart(r, username, password) ==
    /\ req[r].pc = "idle"
    /\ UNCHANGED << accounts, transactions, users, otps, now, outbox, notice >>
    /\ IF ~users[username].exists
         THEN Reject(Reply("login", 400, "User does not exists"))
         ELSE /\ Goto(r, [Idle EXCEPT !.pc = "lgn_auth", !.op = "login",
                                      !.email = username, !.password = password,
                                      !.user = users[username]])
              /\ response' = response

\* user_crud.authenticate(email=form_data.username.lower()), and the checks
\* on the user it returns.  When its SELECT finds the row the first lookup has
\* loaded (the name was typed in lower case), the session hands back the
\* object it holds, with the attributes read then; another row is read as it
\* is now
LoginAuthenticate(r) ==
    /\ req[r].pc = "lgn_auth"
    /\ UNCHANGED << accounts, transactions, users, otps, now, outbox, notice >>
    /\ LET name == lower(req[r].email)
           user == IF users[name].exists /\ name = req[r].email
                     THEN req[r].user
                     ELSE users[name]
       IN IF ~user.exists \/ ~verify_password(req[r].password, user.hashed_password)
            THEN Finish(r, Reply("login", 400, "Incorrect email or password"))
          ELSE IF ~user.is_active
            THEN Finish(r, Reply("login", 400,
                     "User not active. Please request an OTP and activate your account."))
          ELSE Finish(r, Reply("login", 200, "bearer"))

\* datetime.utcnow() moves on
Tick(d) ==
    /\ now + d <= MaxNow
    /\ now' = now + d
    /\ UNCHANGED << accounts, transactions, req, response, users, otps, outbox, notice >>

\* ------------------------------------------------------- specifications
\* the ids a request may name as a transaction
TxIds == 1..MaxTxLedger

Init ==
    /\ accounts = [a \in AccountIds |-> NoAccount]
    /\ transactions = << >>
    /\ req = [r \in Requests |-> Idle]
    /\ response = NoResponse
    /\ notice = NULL
    /\ users = [e \in Emails |-> NoUser]
    /\ otps = {}
    /\ now = 0
    /\ outbox = << >>

\* the digits the draw gives in the specifications that open accounts without
\* a collision
OwnNumber ==
    [a \in AccountIds |->
        {IF a = "a1" THEN "264049449147" ELSE "242294630755"}]

AllIdle == \A q \in Requests : req[q].pc = "idle"

\* no create_account request is in flight
Opened == \A q \in Requests : req[q].op # "create_account"

\* the account life cycle: a request to open, close or freeze one of the
\* accounts ids arrives on connection r
AccountStep(r, callers, ids, balances, statuses, numbers) ==
    \E caller \in callers, a \in ids :
        \/ \E balance \in balances, currency \in Currencies(a),
              status \in statuses, n \in numbers[a] :
               CreateAccountStart(r, caller, a, balance, currency, status, n)
        \/ CloseAccountStart(r, caller, a)
        \/ FreezeAccountStart(r, caller, a)

\* the request on connection r runs up to its next await
AccountContinue(r) ==
    \/ CreateAccountInsert(r)
    \/ CreateAccountRefresh(r)
    \/ CloseAccountCommit(r)
    \/ CloseAccountRefresh(r)
    \/ FreezeAccountCommit(r)
    \/ FreezeAccountRefresh(r)

\* PUT /accounts/{id}
AccountEdit(r, callers, ids, patches) ==
    \E caller \in callers, a \in ids, patch \in patches :
        UpdateAccountStart(r, caller, a, patch)

\* DELETE /accounts/{id}, and the request on connection r runs up to its
\* next await
AccountDelete(r, callers, ids) ==
    \/ \E caller \in callers, a \in ids : DeleteAccountStart(r, caller, a)
    \/ DeleteAccountLoad(r)
    \/ DeleteAccountFlush(r)
    \/ DeleteAccountFlushTo(r)
    \/ DeleteAccountCommit(r)

\* the administrator opens an active dollar account
OpenStart(r, balances) ==
    \E a \in AccountIds, balance \in balances :
        \E n \in OwnNumber[a] :
            CreateAccountStart(r, "root", a, balance, "USD", "active", n)

OpenContinue(r) ==
    \/ CreateAccountInsert(r)
    \/ CreateAccountRefresh(r)

\* a money-movement request arrives on connection r
MoneyStart(r, callers, amounts, cap) ==
    \/ \E caller \in callers, a \in AccountIds, amount \in amounts :
           \/ DepositStart(r, caller, a, amount, cap)
           \/ WithdrawStart(r, caller, a, amount, cap)
           \/ \E b \in AccountIds : TransferStart(r, caller, a, b, amount, cap)
    \/ \E caller \in callers, t \in TxIds : ReverseStart(r, caller, t, cap)

\* the request on connection r runs up to its next await; suffixes holds the
\* characters generate_reference_number can draw, channel the outcomes the
\* e-mail channel can have (TRUE: the notification goes out)
MoneyContinue(r, suffixes, channel) ==
    \/ \E n \in suffixes :
           \/ DepositCreate(r, n)
           \/ WithdrawCreate(r, n)
           \/ TransferCreate(r, n)
           \/ ReverseCreate(r, n)
    \/ DepositUpdate(r)
    \/ DepositRefresh(r)
    \/ WithdrawUpdate(r)
    \/ WithdrawRefresh(r)
    \/ \E delivered \in channel :
           \/ DepositNotify(r, delivered)
           \/ WithdrawNotify(r, delivered)
           \/ TransferNotify(r, delivered)
    \/ TransferLoadTo(r)
    \/ TransferDebit(r)
    \/ TransferDebitRefresh(r)
    \/ TransferCredit(r)
    \/ TransferCreditRefresh(r)
    \/ ReverseLoadFrom(r)
    \/ ReverseBalanceAfter(r)
    \/ ReverseCredit(r)
    \/ ReverseCreditRefresh(r)
    \/ ReverseLoadTo(r)
    \/ ReverseDebit(r)
    \/ ReverseDebitRefresh(r)
    \/ ReverseMark(r)
    \/ ReverseMarkRefresh(r)

\* a deposit, withdrawal or transfer request arrives on connection r
MovementStart(r, callers, amounts, cap) ==
    \E caller \in callers, a \in AccountIds, amount \in amounts :
        \/ DepositStart(r, caller, a, amount, cap)
        \/ WithdrawStart(r, caller, a, amount, cap)
        \/ \E b \in AccountIds : TransferStart(r, caller, a, b, amount, cap)

\* the deposit, withdrawal or transfer on connection r runs up to its next
\* await
MovementContinue(r, channel) ==
    \/ \E n \in Suffixes :
           \/ DepositCreate(r, n)
           \/ WithdrawCreate(r, n)
           \/ TransferCreate(r, n)
    \/ DepositUpdate(r)
    \/ DepositRefresh(r)
    \/ WithdrawUpdate(r)
    \/ WithdrawRefresh(r)
    \/ TransferLoadTo(r)
    \/ TransferDebit(r)
    \/ TransferDebitRefresh(r)
    \/ TransferCredit(r)
    \/ TransferCreditRefresh(r)
    \/ \E delivered \in channel :
           \/ DepositNotify(r, delivered)
           \/ WithdrawNotify(r, delivered)
           \/ TransferNotify(r, delivered)

\* Spec: the account life cycle and the money-movement handlers, any caller,
\* any amount of two decimals; accounts are opened active; the requests are
\* served one at a time (a request starts when no other is in flight) and the
\* e-mail channel works
Next ==
    \/ AllIdle /\ AccountStep("r1", Callers, AccountIds, OpenBalances, {"active"}, OwnNumber)
    \/ AccountContinue("r1")
    \/ AllIdle /\ MoneyStart("r1", Callers, {v \in AmountInputs : v % Cent = 0}, MaxTx)
    \/ MoneyContinue("r1", Suffixes, {TRUE})

Spec == Init /\ [][Next]_vars

\* SpecConcurrent: the administrator opens dollar accounts and sends
\* money-movement requests of whole amounts on all connections at once; their
\* steps interleave at every await; the e-mail channel works
NextConcurrent ==
    \/ AllIdle /\ OpenStart("r1", OpenBalances)
    \/ OpenContinue("r1")
    \/ \E r \in Requests :
           \/ Opened /\ MoneyStart(r, {"root"}, WholeAmounts, MaxTx)
           \/ MoneyContinue(r, Suffixes, {TRUE})

SpecConcurrent == Init /\ [][NextConcurrent]_vars

\* SpecReversals: the administrator opens dollar accounts, sends deposits,
\* withdrawals and transfers of whole amounts one at a time, and sends
\* reversals on all connections at once; the steps interleave at every await
NextReversals ==
    \/ AllIdle /\ OpenStart("r1", OpenBalances)
    \/ OpenContinue("r1")
    \/ AllIdle /\ MovementStart("r1", {"root"}, WholeAmounts, MaxTx)
    \/ \E r \in Requests :
           \/ Opened /\ \E t \in TxIds : ReverseStart(r, "root", t, MaxTxConcurrent)
           \/ MoneyContinue(r, Suffixes, {TRUE})

SpecReversals == Init /\ [][NextReversals]_vars

\* SpecMovement: the administrator opens dollar accounts; deposits, withdrawals
\* and transfers of any amount, and nothing else, arrive on all connections at
\* once and interleave at every await; the e-mail channel works
NextMovement ==
    \/ AllIdle /\ OpenStart("r1", OpenBalances)
    \/ OpenContinue("r1")
    \/ \E r \in Requests :
           \/ Opened /\ MovementStart(r, {"root"}, AmountInputs, MaxTx)
           \/ MovementContinue(r, {TRUE})

SpecMovement == Init /\ [][NextMovement]_vars

\* SpecStorage: deposits, withdrawals and transfers of whole amounts arrive
\* on one connection while the administrator opens and deletes dollar
\* accounts on the other; an account can disappear between two steps of a
\* request
NextStorage ==
    \/ OpenStart("r2", OpenBalances)
    \/ OpenContinue("r2")
    \/ AccountDelete("r2", {"root"}, AccountIds)
    \/ MovementStart("r1", {"root"}, WholeAmounts, MaxTx)
    \/ MovementContinue("r1", {TRUE})

SpecStorage == Init /\ [][NextStorage]_vars

\* SpecAccounts: the account handlers alone, one request at a time, on
\* accounts opened empty
NextAccounts ==
    \/ AllIdle /\ AccountStep("r1", Callers, AccountIds, {0}, AccountStatus,
                              [a \in AccountIds |-> AccountNumbers])
    \/ \E n \in AccountNumbers : CreateAccountNumber("r1", n)
    \/ AccountContinue("r1")
    \/ AllIdle /\ AccountEdit("r1", Callers, AccountIds, Patches)
    \/ UpdateAccountCommit("r1")
    \/ UpdateAccountRefresh("r1")
    \/ AccountDelete("r1", Callers, AccountIds)

SpecAccounts == Init /\ [][NextAccounts]_vars

\* SpecRaces: the administrator opens empty dollar accounts, and updates,
\* closes, freezes and deletes the first of them, on all connections at once;
\* the steps interleave at every await; an update carries a new balance or a
\* null status
NextRaces ==
    \E r \in Requests :
        \/ \E a \in AccountIds, n \in AccountNumbers :
               CreateAccountStart(r, "root", a, 0, "USD", "active", n)
        \/ \E n \in AccountNumbers : CreateAccountNumber(r, n)
        \/ AccountContinue(r)
        \/ CloseAccountStart(r, "root", "a1")
        \/ FreezeAccountStart(r, "root", "a1")
        \/ AccountEdit(r, {"root"}, {"a1"},
               {[NoPatch EXCEPT !.balance = Value(v)] : v \in PatchBalances}
                   \cup {[NoPatch EXCEPT !.status = JsonNull(NULL)]})
        \/ UpdateAccountCommit(r)
        \/ UpdateAccountRefresh(r)
        \/ AccountDelete(r, {"root"}, {"a1"})

SpecRaces == Init /\ [][NextRaces]_vars

\* SpecNotify: the administrator opens dollar accounts and moves whole
\* amounts, one request at a time, over an e-mail channel that may fail at
\* any time
NextNotify ==
    \/ AllIdle /\ OpenStart("r1", OpenBalances)
    \/ OpenContinue("r1")
    \/ AllIdle /\ MoneyStart("r1", {"root"}, WholeAmounts, MaxTx)
    \/ MoneyContinue("r1", Suffixes, BOOLEAN)

SpecNotify == Init /\ [][NextNotify]_vars

\* SpecLedger: the administrator opens empty dollar accounts and moves money,
\* one request at a time, with room for MaxTxLedger rows; the e-mail channel
\* works
NextLedger ==
    \/ AllIdle /\ OpenStart("r1", {0})
    \/ OpenContinue("r1")
    \/ AllIdle /\ MoneyStart("r1", {"root"}, {v \in AmountInputs : v > 0},
                              MaxTxLedger)
    \/ MoneyContinue("r1", Suffixes, {TRUE})

SpecLedger == Init /\ [][NextLedger]_vars

\* a request to one of the handlers that read arrives on connection r:
\* account, balance, statement, transaction listing
AccountRead(r, callers) ==
    \E caller \in callers, a \in AccountIds :
        \/ GetAccount(caller, a)
        \/ GetBalance(caller, a)
        \/ \E dates_parse \in BOOLEAN : GetStatementStart(r, caller, a, dates_parse)
        \/ \E account_id \in {a, NULL}, page \in Pages, per_page \in PerPages :
               ListTransactionsStart(r, caller, account_id, page, per_page)

\* SpecAccess: the administrator opens dollar accounts for both owners and
\* reverses transactions; the customer alice reads, updates, closes and deletes
\* accounts and moves whole amounts, her own and bob's; her update bodies set
\* the balance or the status; one request at a time; every reference number
\* draws the same characters; the e-mail channel works
NextAccess ==
    \/ AllIdle /\ OpenStart("r1", OpenBalances)
    \/ OpenContinue("r1")
    \/ AllIdle /\ AccountRead("r1", {"alice"})
    \/ FilterItems("r1")
    \/ FilterCount("r1")
    \/ AllIdle /\ AccountEdit("r1", {"alice"}, AccountIds,
                              {p \in SingleFieldPatches :
                                  ~p.currency.given /\ ~p.account_number.given})
    \/ UpdateAccountCommit("r1")
    \/ UpdateAccountRefresh("r1")
    \/ AllIdle /\ \E a \in AccountIds : CloseAccountStart("r1", "alice", a)
    \/ CloseAccountCommit("r1")
    \/ CloseAccountRefresh("r1")
    \/ AccountDelete("r1", {"alice"}, AccountIds)
    \/ AllIdle /\ MoneyStart("r1", {"alice"}, WholeAmounts, MaxTx)
    \/ AllIdle /\ \E t \in TxIds : ReverseStart("r1", "root", t, MaxTx)
    \/ MoneyContinue("r1", {"K7Q2"}, {TRUE})

SpecAccess == Init /\ [][NextAccess]_vars

\* a request to one of the user handlers arrives on connection r
UserStart(r, emails) ==
    \E email \in emails :
           \/ \E confirm_password \in Passwords :
                  RegisterStart(r, email, "pw1", confirm_password)
           \/ /\ r = "r1"
              /\ \E code \in Codes, confirm_password \in Passwords :
                     ConfirmPasswordResetStart(r, email, code, "pw2", confirm_password)
           \/ /\ r = "r2"
              /\ \/ SendOtpStart(r, email)
                 \/ RequestPasswordResetStart(r, email)
                 \/ \E password \in Passwords : LoginStart(r, email, password)
           \/ \E code \in Codes : ConfirmRegistrationStart(r, email, code)

\* the request on connection r runs up to its next await; channel holds the
\* outcomes an awaited e-mail can have (TRUE: the e-mail goes out)
UserContinue(r, channel) ==
    \/ RegisterUser(r)
    \/ \E code \in Codes :
           \/ UserRefresh(r, code)
           \/ SendOtpLoad(r, code)
           \/ RequestPasswordResetLoad(r, code)
           \/ OtpDeleteCommit(r, code)
    \/ OtpInsert(r)
    \/ OtpRefresh(r)
    \/ OtpDeleteLoad(r)
    \/ OtpFlagCommit(r)
    \/ OtpFlagRefresh(r)
    \/ \E delivered \in channel :
           \/ RegisterMail(r, delivered)
           \/ ConfirmRegistrationWelcome(r, delivered)
           \/ OtpMail(r, delivered)
    \/ ConfirmRegistrationLoad(r)
    \/ ConfirmRegistrationActivate(r)
    \/ ConfirmPasswordResetLoad(r)
    \/ ConfirmPasswordResetUpdate(r)
    \/ LoginAuthenticate(r)

\* SpecUsers: the user handlers, served concurrently on the two connections,
\* their steps interleaving at every await, while the clock moves on.  Both
\* connections register and confirm a registration; connection r1 also
\* confirms a password reset, connection r2 asks for codes and logs in.  The
\* requests name the lower-case address; an e-mail may fail to go out.
NextUsers ==
    \/ \E r \in Requests : UserStart(r, {e \in Emails : lower(e) = e})
    \/ \E r \in Requests : UserContinue(r, BOOLEAN)
    \/ \E d \in ClockSteps : Tick(d)

SpecUsers == Init /\ [][NextUsers]_vars

\* SpecSignIn: registrations and logins that name the address in either
\* spelling, one request at a time; every e-mail goes out
NextSignIn ==
    \/ AllIdle /\ \E email \in Emails, password \in Passwords :
                      \/ RegisterStart("r1", email, "pw1", password)
                      \/ LoginStart("r1", email, password)
    \/ UserContinue("r1", {TRUE})

SpecSignIn == Init /\ [][NextSignIn]_vars

\* =================================================================== claims
\* the Start actions with the larger cap include those with the smaller one
AnyCap == MaxTxLedger

RECURSIVE SumAmounts(_)
SumAmounts(ids) ==
    IF ids = {} THEN 0
    ELSE LET i == CHOOSE x \in ids : TRUE
         IN transactions[i].amount + SumAmounts(ids \ {i})

\* the completed rows that credit / debit account a
Credits(a) ==
    {i \in DOMAIN transactions : /\ transactions[i].status = "completed"
                                 /\ transactions[i].to_account_id = a}
Debits(a) ==
    {i \in DOMAIN transactions : /\ transactions[i].status = "completed"
                                 /\ transactions[i].from_account_id = a}

\* the request on connection r is rejected: nothing is stored and nothing is
\* left in flight
Untouched == accounts' = accounts /\ transactions' = transactions /\ req' = req

\* the request in flight on connection r ends here with nothing stored
Dropped(r) ==
    /\ accounts' = accounts
    /\ transactions' = transactions
    /\ req' = [req EXCEPT ![r] = Idle]

\* the transfer on connection r has read its source and is about to read its
\* destination and run its checks, and no row has changed since it started
AtTransferChecks(r) ==
    /\ req[r].pc = "trf_load_to"
    /\ req[r].seen = accounts[req[r].a]

\* connection r takes in a request for op: it is answered on the spot or left
\* in flight.  Every Start step of op is such a step; the claims below look at
\* the Start action only on these steps.
Asks(r, op) ==
    /\ req[r].pc = "idle"
    /\ accounts' = accounts
    /\ transactions' = transactions
    /\ IF req' = req THEN response'.op = op ELSE req'[r].op = op

\* C1: when the only things that ever happened to an account are N deposits
\* that all succeeded (the table holds exactly their N rows and no request is
\* in flight), its balance is its opening balance plus the sum of the N amounts.
C1_NoLostDeposit ==
    \A a \in AccountIds :
        ( /\ AllIdle
          /\ Found(a)
          /\ transactions # << >>
          /\ \A i \in DOMAIN transactions :
                 /\ transactions[i].transaction_type = "deposit"
                 /\ transactions[i].from_account_id = NULL
                 /\ transactions[i].to_account_id = a )
        => \E b \in OpenBalances :
               accounts[a].balance = b + SumAmounts(DOMAIN transactions)

\* C2: whenever no request is in flight, every account's balance is the sum of
\* the amounts of the completed rows that credit it minus the sum of the
\* amounts of the completed rows that debit it.
C2_BalanceIsLedgerSum ==
    AllIdle =>
        \A a \in AccountIds :
            Found(a) =>
                accounts[a].balance = SumAmounts(Credits(a)) - SumAmounts(Debits(a))

\* C3: a row that is REVERSED stays REVERSED, and a reverse request by the
\* administrator on a REVERSED row is answered 400 "Only completed transactions
\* can be reversed", stores nothing and changes no balance.
C3_ReverseIsSingleShot ==
    [][ /\ \A t \in DOMAIN transactions :
               transactions[t].status = "reversed"
                   => /\ t \in DOMAIN transactions'
                      /\ transactions'[t].status = "reversed"
        /\ \A r \in Requests :
               Asks(r, "reverse") =>
                   \A t \in DOMAIN transactions :
                       ( /\ transactions[t].status = "reversed"
                         /\ ReverseStart(r, "root", t, AnyCap) )
                       => /\ Untouched
                          /\ response' = Reply("reverse", 400,
                                 "Only completed transactions can be reversed")
      ]_vars

\* a second reverse of an original that a reverse has already succeeded on has
\* been rejected
C3_Witness ==
    /\ response = Reply("reverse", 400, "Only completed transactions can be reversed")
    /\ \E t \in DOMAIN transactions : transactions[t].status = "reversed"
    /\ AllIdle

\* the confirmation on connection r is turned down on the spot: 400, no user
\* changes, the OTP rows stay, and the connection is free again
ConfirmRejected(r) ==
    /\ req' = [req EXCEPT ![r] = Idle]
    /\ users' = users
    /\ otps' = otps
    /\ response'.code = 400

\* C4: once another OTP has been issued for an address, the code of the
\* earlier one is no longer accepted: a confirmation whose code differs from
\* the code of the OTP stored for the address is turned down; when
\* confirm_registration has deleted the OTP and goes on to activate the user,
\* or confirm_password_reset writes the new password, no OTP issued since for
\* the address, with another code than the one presented, is stored; and
\* there is never more than one OTP row per address.
C4_OldCodeRejected ==
    [][ /\ \A e \in Emails : Cardinality({o \in otps' : o.email = e}) <= 1
        /\ \A r \in Requests :
             /\ ( /\ \/ ConfirmRegistrationLoad(r)
                     \/ ConfirmPasswordResetLoad(r)
                  /\ \E o \in OtpsOf(req[r].email) :
                         ~Expired(o) /\ o.otp_code # req[r].code )
                    => ConfirmRejected(r)
             /\ ( \/ /\ req[r].op = "confirm_registration"
                     /\ \E code \in Codes : OtpDeleteCommit(r, code)
                  \/ ConfirmPasswordResetUpdate(r) )
                    => \A o \in OtpsOf(req[r].email) :
                           o.id = req[r].otp.id \/ o.otp_code = req[r].code
      ]_vars

\* C5: no two rows of the table carry the same reference number.
C5_ReferencesUnique ==
    \A i, j \in DOMAIN transactions :
        i # j => transactions[i].reference_number # transactions[j].reference_number

\* a request whose generated reference was already stored has been refused
\* (in SpecReversals nothing else answers 500)
C5_Witness ==
    /\ response = Reply("reverse", 500, "Error reversing transaction")
    /\ Len(transactions) = 2
    /\ transactions[2].reference_number[1] = "REV"

LastRow == transactions[Len(transactions)]

\* the caller may use the account and it is active
Usable(caller, a) ==
    /\ Found(a)
    /\ ~AccessDenied(caller, accounts[a])
    /\ accounts[a].status = "active"

Blocked(a) == accounts[a].status \in {"frozen", "closed"}

\* C6: a deposit of a positive amount on an active account the caller may use
\* is accepted; it stores exactly one row (deposit, COMPLETED, no source, the
\* account as destination, balance_after = old balance + amount) and then sets
\* the account's balance to old balance + amount, which is the row's
\* balance_after, and answers 201.
C6_Deposit ==
    [][ \A r \in Requests :
          /\ Asks(r, "deposit") =>
                 \A a \in AccountIds, caller \in Callers :
                     Usable(caller, a) =>
                         \A amount \in AmountInputs :
                             ( /\ amount > 0
                               /\ DepositStart(r, caller, a, amount, AnyCap) )
                             => /\ req'[r].pc = "dep_create"
                                /\ req'[r].a = a
                                /\ req'[r].amount = amount
          /\ (req[r].pc = "dep_create" /\ req'[r].pc = "dep_update")
                 => /\ \E n \in Suffixes :
                           transactions' = Append(transactions,
                               [from_account_id |-> NULL,
                                to_account_id |-> req[r].a,
                                transaction_type |-> "deposit",
                                amount |-> req[r].amount,
                                reference_number |-> << "DEP", n >>,
                                status |-> "completed",
                                balance_after |->
                                    << accounts[req[r].a].balance + req[r].amount >>])
                    /\ accounts' = accounts
          /\ req[r].pc = "dep_update"
                 => /\ req'[r].pc = "dep_refresh"
                    /\ accounts' = [accounts EXCEPT
                                       ![req[r].a].balance = @ + req[r].amount]
                    /\ transactions' = transactions
                    /\ LastRow.to_account_id = req[r].a
                    /\ LastRow.balance_after = << accounts'[req[r].a].balance >>
          /\ req[r].pc = "dep_refresh"
                 => /\ req'[r].pc = "dep_notify"
                    /\ accounts' = accounts
                    /\ transactions' = transactions
                    /\ response' = Reply("deposit", 201,
                                         "Deposit completed successfully")
      ]_vars

\* C7: on an active account the caller may use, a withdraw of more than the
\* balance is answered 400 "Insufficient balance", stores no row and leaves
\* every balance alone; a withdraw of a positive amount of at most the balance
\* is accepted and sets the balance to balance - amount.
C7_Withdraw ==
    [][ \A r \in Requests :
          /\ Asks(r, "withdraw") =>
                 \A a \in AccountIds, caller \in Callers :
                     Usable(caller, a) =>
                         \A amount \in AmountInputs :
                             WithdrawStart(r, caller, a, amount, AnyCap)
                             => /\ amount > accounts[a].balance
                                    => /\ Untouched
                                       /\ response' = Reply("withdraw", 400,
                                                            "Insufficient balance")
                                /\ (amount > 0 /\ amount <= accounts[a].balance)
                                    => /\ req'[r].pc = "wth_create"
                                       /\ req'[r].a = a
                                       /\ req'[r].amount = amount
          /\ (req[r].pc = "wth_create" /\ req'[r].pc = "wth_update")
                 => /\ Len(transactions') = Len(transactions) + 1
                    /\ transactions'[Len(transactions')].from_account_id = req[r].a
                    /\ transactions'[Len(transactions')].amount = req[r].amount
                    /\ accounts' = accounts
          /\ req[r].pc = "wth_update"
                 => /\ req'[r].pc = "wth_refresh"
                    /\ accounts' = [accounts EXCEPT
                                       ![req[r].a].balance = @ - req[r].amount]
                    /\ accounts'[req[r].a].balance >= 0
                    /\ transactions' = transactions
          /\ req[r].pc = "wth_refresh"
                 => /\ req'[r].pc = "wth_notify"
                    /\ accounts' = accounts
                    /\ transactions' = transactions
                    /\ response' = Reply("withdraw", 201,
                                         "Withdrawal completed successfully")
      ]_vars

\* C8: a transfer between two existing accounts whose currencies differ is
\* rejected (with "Cannot transfer between accounts with different currencies"
\* when no earlier check rejects it), stores no row and changes no balance; no
\* transfer in flight is between accounts of different currencies.
C8_TransferSameCurrency ==
    [][ \A r \in Requests :
          /\ ( /\ AtTransferChecks(r)
               /\ Found(req[r].b)
               /\ accounts[req[r].a].currency # accounts[req[r].b].currency
               /\ TransferLoadTo(r) )
                 => /\ Dropped(r)
                    /\ response'.code \in {400, 403}
                    /\ ( /\ Usable(req[r].caller, req[r].a)
                         /\ accounts[req[r].b].status = "active"
                         /\ req[r].amount <= accounts[req[r].a].balance )
                       => response' = Reply("transfer", 400,
                              "Cannot transfer between accounts with different currencies")
          /\ (req'[r].op = "transfer" /\ req'[r].pc # "trf_load_to")
                 => accounts'[req'[r].a].currency = accounts'[req'[r].b].currency
      ]_vars

\* a transfer between a USD and a EUR account has been refused
C8_Witness ==
    /\ response = Reply("transfer", 400,
                        "Cannot transfer between accounts with different currencies")
    /\ accounts["a1"].currency = "USD"
    /\ accounts["a2"].currency = "EUR"

\* C9: a reverse that goes through stores exactly one new row, COMPLETED, with
\* the original's legs swapped and its type and amount kept; it adds the amount
\* to the original's source (when it has one), takes the amount from the
\* original's destination (when it has one), sets the new row's balance_after
\* to the credited source balance, marks the original REVERSED and answers 200.
C9_Reverse ==
    [][ \A r \in Requests :
          req[r].op = "reverse" =>
              LET t == req[r].t
                  orig == transactions[t]
                  from == orig.from_account_id
                  to == orig.to_account_id
                  pc == req[r].pc
              IN /\ (pc = "rev_create" /\ req'[r].pc # "idle")
                     => /\ \E n \in Suffixes :
                               transactions' = Append(transactions,
                                   [from_account_id |-> to,
                                    to_account_id |-> from,
                                    transaction_type |-> orig.transaction_type,
                                    amount |-> orig.amount,
                                    reference_number |-> << "REV", n >>,
                                    status |-> "completed",
                                    balance_after |-> None])
                        /\ req'[r].t2 = Len(transactions) + 1
                 /\ pc = "rev_from_acct"
                     => /\ accounts' = [accounts EXCEPT ![from].balance = @ + orig.amount]
                        /\ transactions[req[r].t2].balance_after
                               = << accounts'[from].balance >>
                 /\ pc = "rev_to_acct"
                     => accounts' = [accounts EXCEPT ![to].balance = @ - orig.amount]
                 /\ pc \notin {"rev_from_acct", "rev_to_acct"}
                     => accounts' = accounts
                 /\ pc \notin {"rev_create", "rev_from_tx", "rev_mark"}
                     => transactions' = transactions
                 /\ pc = "rev_from_tx"
                     => /\ Len(transactions') = Len(transactions)
                        /\ \A i \in DOMAIN transactions :
                               /\ transactions'[i].status = transactions[i].status
                               /\ transactions'[i].amount = transactions[i].amount
                 /\ pc = "rev_mark"
                     => /\ transactions' = [transactions EXCEPT ![t].status = "reversed"]
                        /\ req[r].t2 = Len(transactions)
                        /\ LastRow.status = "completed"
                        /\ response' = response
                        /\ req'[r].pc = "rev_mark_refresh"
                        \* both legs have run
                        /\ from # NULL
                               => /\ LastRow.balance_after = << req[r].nb1 >>
                                  /\ from # to => accounts[from].balance = req[r].nb1
                        /\ to # NULL => accounts[to].balance = req[r].nb2
                 /\ pc = "rev_mark_refresh"
                     => /\ orig.status = "reversed"
                        /\ response' = Reply("reverse", 200,
                                             "Transaction reversed successfully")
                        /\ req'[r].pc = "idle"
      ]_vars

\* a transfer of 0.01 from a1 to a2 has been reversed: the reversal row runs from
\* a2 to a1, carries a1's credited balance, and both accounts are back at their
\* opening balance
C9_Witness ==
    /\ AllIdle
    /\ response = Reply("reverse", 200, "Transaction reversed successfully")
    /\ Len(transactions) = 2
    /\ transactions[1].status = "reversed"
    /\ transactions[1].transaction_type = "transfer"
    /\ transactions[1].from_account_id = "a1"
    /\ transactions[1].to_account_id = "a2"
    /\ transactions[2].status = "completed"
    /\ transactions[2].transaction_type = "transfer"
    /\ transactions[2].from_account_id = "a2"
    /\ transactions[2].to_account_id = "a1"
    /\ transactions[2].amount = transactions[1].amount
    /\ transactions[2].balance_after = << Cent >>
    /\ accounts["a1"].balance = Cent
    /\ accounts["a2"].balance = Cent

\* C10: deposit and withdraw on a frozen or closed account the caller may
\* touch, and transfer when the source or the destination is frozen or closed,
\* are answered 400 (account not active), store no row and change no balance.
\* (The deposit and withdraw parts read: the step is such a rejection, or it is
\* no Start step of a request on a frozen or closed account.  A transfer is
\* rejected in the step that follows the read of its destination.)
C10_InactiveRejected ==
    [][ \A r \in Requests :
          /\ Asks(r, "deposit") =>
                 \/ /\ Untouched
                    /\ response' = Reply("deposit", 400, "Account is not active")
                 \/ \A a \in AccountIds :
                        (Found(a) /\ Blocked(a)) =>
                            \A caller \in Callers, amount \in AmountInputs :
                                ~ ( /\ ~AccessDenied(caller, accounts[a])
                                    /\ DepositStart(r, caller, a, amount, AnyCap) )
          /\ Asks(r, "withdraw") =>
                 \/ /\ Untouched
                    /\ response' = Reply("withdraw", 400, "Account is not active")
                 \/ \A a \in AccountIds :
                        (Found(a) /\ Blocked(a)) =>
                            \A caller \in Callers, amount \in AmountInputs :
                                ~ ( /\ ~AccessDenied(caller, accounts[a])
                                    /\ WithdrawStart(r, caller, a, amount, AnyCap) )
          /\ ( /\ AtTransferChecks(r)
               /\ Found(req[r].b)
               /\ Blocked(req[r].a) \/ Blocked(req[r].b)
               /\ ~AccessDenied(req[r].caller, accounts[req[r].a])
               /\ TransferLoadTo(r) )
                 => /\ Dropped(r)
                    /\ response' = Reply("transfer", 400,
                                         "One or both accounts are not active")
      ]_vars

\* a transfer from an active account into a frozen one has been refused
C10_Witness ==
    /\ response = Reply("transfer", 400, "One or both accounts are not active")
    /\ accounts["a1"].status = "active"
    /\ accounts["a2"].status = "frozen"
    /\ transactions = << >>

\* C11: a user created by register is inactive, is_active turns true only in
\* the activation step of a confirm_registration for the address, and a login
\* with the right password for an inactive user is turned down as inactive.
C11_InactiveUntilConfirmed ==
    [][ \A e \in Emails :
          /\ (~users[e].exists /\ users'[e].exists) => ~users'[e].is_active
          /\ (users[e].exists /\ ~users[e].is_active /\ users'[e].is_active)
                 => \E r \in Requests : /\ req[r].email = e
                                        /\ ConfirmRegistrationActivate(r)
          /\ \A r \in Requests :
                 ( /\ lower(req[r].email) = e
                   /\ users[e].exists
                   /\ ~users[e].is_active
                   /\ verify_password(req[r].password, users[e].hashed_password)
                   /\ LoginAuthenticate(r) )
                 => response' = Reply("login", 400,
                        "User not active. Please request an OTP and activate your account.")
      ]_vars

\* C12: closed is terminal: no step changes the status of an account that is
\* closed (a step may delete the account).
C12_ClosedIsTerminal ==
    [][ \A a \in AccountIds :
          (Found(a) /\ accounts[a].status = "closed" /\ accounts'[a].exists)
              => accounts'[a].status = "closed"
      ]_vars

\* the rows that move money to or from account a
RowsOn(a, rows) ==
    {t \in DOMAIN rows : rows[t].from_account_id = a \/ rows[t].to_account_id = a}

\* C13: while an account is closed no step creates a transaction that moves
\* money to or from it, and no step changes its balance.
C13_ClosedIsSettled ==
    [][ \A a \in AccountIds :
          (Found(a) /\ accounts[a].status = "closed")
              => /\ accounts'[a].balance = accounts[a].balance
                 /\ RowsOn(a, transactions') = RowsOn(a, transactions)
      ]_vars

\* C14: an account's status becomes frozen only in the commit of an admin
\* freeze request on it, and no step takes a frozen account back to active.
C14_FreezeOnlyByAdmin ==
    [][ \A a \in AccountIds :
          /\ (accounts[a].status # "frozen" /\ accounts'[a].status = "frozen")
                 => \E r \in Requests : /\ req[r].op = "freeze_account"
                                        /\ req[r].a = a
                                        /\ FreezeAccountCommit(r)
          /\ (Found(a) /\ accounts[a].status = "frozen")
                 => accounts'[a].status # "active"
      ]_vars

\* the request is turned down as forbidden or not found and nothing changes
Denied ==
    /\ Untouched
    /\ response'.code \in {403, 404}

\* C15: a customer's request on an existing account of another user (deposit,
\* withdraw, transfer with it as the source, account read, update, delete,
\* close, balance, statement, transaction listing by account_id) and every
\* reverse request of a customer is answered 403 or 404 and changes no
\* account, no balance and no transaction.
\* (The formula reads: the step is such a refusal, or it is no step of one of
\* these requests.  A transfer is refused in the step that follows the read of
\* its destination.)
C15_ForeignRejected ==
    [][ \/ Denied
        \/ \E r \in Requests :
               /\ req[r].pc = "trf_load_to"
               /\ AccessDenied(req[r].caller, req[r].seen)
               /\ Dropped(r)
               /\ response'.op = "transfer"
               /\ response'.code \in {403, 404}
        \/ /\ \A r \in Requests :
                  ~ ( /\ req[r].pc = "trf_load_to"
                      /\ req[r].seen.user_id # req[r].caller
                      /\ UserRole(req[r].caller) = "customer" )
           /\ \A caller \in Callers :
              UserRole(caller) = "customer" =>
                /\ \A r \in Requests :
                       Asks(r, "reverse") =>
                           \A t \in TxIds : ~ReverseStart(r, caller, t, AnyCap)
                /\ \A a \in AccountIds :
                     (Found(a) /\ accounts[a].user_id # caller) =>
                       /\ \A r \in Requests :
                            /\ Asks(r, "deposit") =>
                                   \A amount \in AmountInputs :
                                       ~DepositStart(r, caller, a, amount, AnyCap)
                            /\ Asks(r, "withdraw") =>
                                   \A amount \in AmountInputs :
                                       ~WithdrawStart(r, caller, a, amount, AnyCap)
                       /\ response'.op = "get_account" => ~GetAccount(caller, a)
                       /\ response'.op = "get_balance" => ~GetBalance(caller, a)
                       /\ \A r \in Requests :
                            /\ Asks(r, "get_statement") =>
                                   \A dates_parse \in BOOLEAN :
                                       ~GetStatementStart(r, caller, a, dates_parse)
                            /\ Asks(r, "list_transactions") =>
                                   \A page \in Pages, per_page \in PerPages :
                                       ~ListTransactionsStart(r, caller, a, page,
                                                              per_page)
                            /\ Asks(r, "update_account") =>
                                   \A patch \in Patches :
                                       ~UpdateAccountStart(r, caller, a, patch)
                            /\ Asks(r, "delete_account") =>
                                   ~DeleteAccountStart(r, caller, a)
                            /\ Asks(r, "close_account") =>
                                   ~CloseAccountStart(r, caller, a)
      ]_vars

\* alice has just been refused a withdrawal from bob's account, which still
\* holds what it was opened with, while a row of her own is on the books
C15_Witness ==
    /\ response = Reply("withdraw", 403, "Access denied to this account")
    /\ Found("a2")
    /\ accounts["a2"].user_id = "bob"
    /\ accounts["a2"].balance \in OpenBalances
    /\ transactions # << >>

\* C16: the notification task of a deposit, a withdrawal or a transfer, whether
\* its e-mail goes out or fails, leaves the answer already given (201), the
\* transaction rows and the balances as the handler left them, and frees the
\* connection.
C16_NotificationIsBestEffort ==
    [][ \A r \in Requests, delivered \in BOOLEAN :
          ( \/ DepositNotify(r, delivered)
            \/ WithdrawNotify(r, delivered)
            \/ TransferNotify(r, delivered) )
          => /\ accounts' = accounts
             /\ transactions' = transactions
             /\ response.code = 201
             /\ response.op = req[r].op
             /\ response' = response
             /\ req'[r] = Idle
      ]_vars

\* a deposit is on the books, completed and answered 201, the balance is
\* written, and its notification has failed
C16_Witness ==
    /\ notice = "failed"
    /\ AllIdle
    /\ response = Reply("deposit", 201, "Deposit completed successfully")
    /\ Len(transactions) = 1
    /\ transactions[1].status = "completed"
    /\ transactions[1].to_account_id = "a1"
    /\ accounts["a1"].balance = transactions[1].balance_after[1]

\* C17: reverse validates no funds: a reverse request of the administrator on
\* a COMPLETED deposit or transfer whose destination holds less than the
\* amount is taken on, its destination leg writes the destination's balance
\* minus the amount, which is negative, and the request ends with 200.
C17_ReverseOverdraws ==
    [][ \A r \in Requests :
          /\ Asks(r, "reverse") =>
                 \A t \in DOMAIN transactions :
                     ( /\ transactions[t].status = "completed"
                       /\ transactions[t].transaction_type \in {"deposit", "transfer"}
                       /\ transactions[t].to_account_id # NULL
                       /\ Found(transactions[t].to_account_id)
                       /\ accounts[transactions[t].to_account_id].balance
                              < transactions[t].amount
                       /\ ReverseStart(r, "root", t, AnyCap) )
                     => /\ req'[r].pc = "rev_create"
                        /\ response' = response
          /\ ReverseLoadTo(r) =>
                 LET orig == transactions[req[r].t]
                 IN Found(orig.to_account_id) =>
                        /\ req'[r].pc = "rev_to_acct"
                        /\ orig.to_account_id # orig.from_account_id =>
                               req'[r].nb2 = accounts[orig.to_account_id].balance
                                                 - orig.amount
          /\ ReverseDebit(r) =>
                 LET to == transactions[req[r].t].to_account_id
                 IN /\ accounts'[to].balance = req[r].nb2
                    /\ req'[r].pc = "rev_to_refresh"
          /\ ReverseDebitRefresh(r) => req'[r].pc = "rev_mark"
          /\ ReverseMark(r) => req'[r].pc = "rev_mark_refresh"
          /\ ReverseMarkRefresh(r) =>
                 response' = Reply("reverse", 200, "Transaction reversed successfully")
      ]_vars

\* C18: confirm_registration and confirm_password_reset, finding the OTP of
\* the address flagged expired or with its expires_on in the past, go on to flag
\* it whatever code they were given; until they answer they leave the user's
\* activation flag and password as they are; they answer 400 with the OTP
\* flagged expired; and an OTP that is flagged expired stays flagged as long as
\* it exists, so that every later confirmation with it is turned down the same
\* way.
C18_ExpiredOtpRejected ==
    [][ /\ \A o \in otps, o2 \in otps' :
               (o.is_expired /\ o2.id = o.id) => o2.is_expired
        /\ \A r \in Requests :
             /\ ( /\ \/ ConfirmRegistrationLoad(r)
                     \/ ConfirmPasswordResetLoad(r)
                  /\ \E o \in OtpsOf(req[r].email) : Expired(o) )
                    => /\ req'[r].pc = "otp_flag_commit"
                       /\ users' = users
             /\ (OtpFlagCommit(r) \/ OtpFlagRefresh(r))
                    => /\ users' = users
                       /\ req'[r].pc = "idle"
                              => /\ response'.code = 400
                                 /\ \E o \in otps' : /\ o.id = req[r].otp.id
                                                     /\ o.is_expired
      ]_vars

\* the confirmation on connection q has passed its checks on the OTP with
\* this id and has deleted it (confirm_registration) or has written the
\* password (confirm_password_reset)
UsedBy(q, id) ==
    /\ req[q].otp.id = id
    /\ \/ /\ req[q].op = "confirm_registration"
          /\ req[q].pc \in {"cnf_activate", "usr_refresh", "cnf_welcome"}
       \/ /\ req[q].op = "confirm_password_reset"
          /\ req[q].pc \in {"usr_refresh", "otp_del_load", "otp_del_commit"}

\* C19: one issued OTP yields at most one confirmation that takes effect.
\* A confirmation for an address whose OTP has been deleted is turned down;
\* and when a confirmation writes the user (the activation, or the new
\* password), no other confirmation has deleted the OTP it was checked against
\* nor written the user on the strength of it.
C19_OtpSingleUse ==
    [][ \A r \in Requests :
          /\ ( /\ \/ ConfirmRegistrationLoad(r)
                  \/ ConfirmPasswordResetLoad(r)
               /\ OtpsOf(req[r].email) = {} )
                 => ConfirmRejected(r)
          /\ (ConfirmPasswordResetUpdate(r) \/ ConfirmRegistrationActivate(r))
                 => \A q \in Requests \ {r} : ~UsedBy(q, req[r].otp.id)
      ]_vars

C21_ReversedOnce ==
    [][ \A r \in Requests :
          /\ (req[r].pc = "rev_create" /\ Len(transactions') > Len(transactions))
                 => /\ transactions[req[r].t].status = "completed"
                    /\ \A q \in Requests \ {r} :
                           ~ ( /\ req[q].op = "reverse"
                               /\ req[q].t = req[r].t
                               /\ req[q].pc # "rev_create" )
          /\ ReverseMark(r) => transactions[req[r].t].status = "completed"
      ]_vars

\* C22: close and delete of an account report errors by kind: requested by a
\* customer who does not own the account they answer 403, for a missing
\* account 404, and in both cases leave the accounts as they are.
C22_CloseDeleteErrorKinds ==
    [][ \A r \in Requests, caller \in Callers, a \in AccountIds :
          /\ Asks(r, "close_account") =>
               ( CloseAccountStart(r, caller, a) =>
                   /\ ~Found(a) => (response'.code = 404 /\ Untouched)
                   /\ (Found(a) /\ UserRole(caller) = "customer"
                                /\ accounts[a].user_id # caller)
                          => (response'.code = 403 /\ Untouched) )
          /\ Asks(r, "delete_account") =>
               ( DeleteAccountStart(r, caller, a) =>
                   /\ ~Found(a) => (response'.code = 404 /\ Untouched)
                   /\ (Found(a) /\ UserRole(caller) = "customer"
                                /\ accounts[a].user_id # caller)
                          => (response'.code = 403 /\ Untouched) )
      ]_vars

\* C23: admin freeze answers 400 "Account is already frozen" on a frozen
\* account and 404 on a missing one, changing no status in either case; on any
\* other account it is taken on, and its commit sets the status to frozen.
C23_FreezeErrorKinds ==
    [][ \A r \in Requests, a \in AccountIds :
          /\ (Asks(r, "freeze_account") /\ FreezeAccountStart(r, "root", a)) =>
                /\ ~Found(a) => (response'.code = 404 /\ Untouched)
                /\ (Found(a) /\ accounts[a].status = "frozen")
                       => /\ response' = Reply("freeze_account", 400,
                                               "Account is already frozen")
                          /\ Untouched
                /\ (Found(a) /\ accounts[a].status # "frozen")
                       => req'[r].pc = "frz_commit"
          /\ (req[r].a = a /\ Found(a) /\ FreezeAccountCommit(r))
                => accounts' = WriteStatus(a, "frozen")
      ]_vars

\* C24: every answer to a password-reset request is the same 200 "A password
\* reset code has been sent to your email.", whether or not the address has a
\* user; and a request for an address without a user stores no OTP and leaves
\* nothing in flight.
C24_ResetRequestUniform ==
    [][ /\ response'.op = "request_password_reset"
            => response' = Reply("request_password_reset", 200,
                                 "A password reset code has been sent to your email.")
        /\ \A r \in Requests, e \in Emails :
               (~users[e].exists /\ RequestPasswordResetStart(r, e))
                   => (otps' = otps /\ outbox' = outbox /\ req' = req)
      ]_vars

\* the sum of the balances of the accounts of table accts
TotalBalance(accts) ==
    LET RECURSIVE Sum(_)
        Sum(ids) == IF ids = {} THEN 0
                    ELSE LET i == CHOOSE x \in ids : TRUE
                         IN accts[i].balance + Sum(ids \ {i})
    IN Sum({a \in AccountIds : accts[a].exists})

\* the accounts as the transfer on connection r read them: the source held
\* its new balance plus the amount, the destination its new balance less the
\* amount
BeforeTransfer(r) ==
    [a \in AccountIds |->
        IF a = req[r].a
          THEN [accounts[a] EXCEPT !.balance = req[r].nb1 + req[r].amount]
        ELSE IF a = req[r].b
          THEN [accounts[a] EXCEPT !.balance = req[r].nb2 - req[r].amount]
        ELSE accounts[a]]

\* C25: when a transfer of amount a completes (requests served one at a
\* time), the source holds its balance from before the transfer less a, the
\* destination its balance from before plus a, and the sum of all balances is
\* what it was before the transfer, for every pair of accounts that transfer
\* accepts.
C25_TransferConserves ==
    [][ \A r \in Requests :
          TransferCredit(r)
              => LET before == BeforeTransfer(r)
                 IN /\ accounts'[req[r].a].balance
                           = before[req[r].a].balance - req[r].amount
                    /\ accounts'[req[r].b].balance
                           = before[req[r].b].balance + req[r].amount
                    /\ TotalBalance(accounts') = TotalBalance(before)
      ]_vars

\* C26: an account opened with balance b that no row credits (the table holds
\* withdrawals and transfers only, none of them into the account) has paid out
\* at most b once every request has been answered: the amounts of the
\* completed withdrawals and outgoing transfers sum to at most b, whatever the
\* interleaving of the requests.
C26_NoDoubleSpend ==
    \A a \in AccountIds :
        ( /\ Found(a)
          /\ AllIdle
          /\ \A i \in DOMAIN transactions :
                 /\ transactions[i].transaction_type \in {"withdrawal", "transfer"}
                 /\ transactions[i].to_account_id # a )
            => \E b \in OpenBalances : SumAmounts(Debits(a)) <= b

\* C27: with accounts opened with a balance >= 0 and only deposits,
\* withdrawals and transfers arriving, interleaved in any way, every stored
\* balance is >= 0 in every reachable state.
C27_BalancesNonNegative ==
    \A a \in AccountIds : Found(a) => accounts[a].balance >= 0

\* two interleaved withdrawals of the whole balance have both completed and
\* the account stands at zero
C27_Witness ==
    \E a \in AccountIds :
        /\ Found(a)
        /\ AllIdle
        /\ accounts[a].balance = 0
        /\ Cardinality({i \in Debits(a) :
                           transactions[i].transaction_type = "withdrawal"}) = 2
        /\ Credits(a) = {}

\* C28: when a completed deposit, withdrawal or transfer T is the only thing
\* on the books and reverse(T) has run to its end directly after it, every
\* account holds the balance it had before T (the balance it was opened with).
C28_ReverseRestores ==
    ( /\ AllIdle
      /\ Len(transactions) = 2
      /\ transactions[1].status = "reversed"
      /\ transactions[2].reference_number[1] = Prefix(reversal) )
        => \A a \in AccountIds : Found(a) => accounts[a].balance \in OpenBalances

\* the pcs at which the response is out and only the notification is left
NotifyPcs == {"dep_notify", "wth_notify", "trf_notify"}

\* C29: when a deposit, withdrawal, transfer or reversal in flight ends with
\* an error response, the request has stored nothing: it was still ahead of
\* its INSERT into transactions, and the failing step leaves the accounts and
\* the transactions as they are.
C29_ErrorLeavesNoTrace ==
    [][ \A r \in Requests :
          ( /\ req[r].pc \notin {"idle"} \cup NotifyPcs
            /\ req[r].op \in {"deposit", "withdraw", "transfer", "reverse"}
            /\ req'[r].pc = "idle"
            /\ response'.code >= 400 )
              => /\ req[r].pc \in CreatingPcs
                 /\ accounts' = accounts
                 /\ transactions' = transactions
      ]_vars

\* the rows that name an account of the caller, as source or as destination
RowsOfCaller(caller) ==
    {t \in DOMAIN transactions :
        \E a \in AccountIds :
            /\ Found(a)
            /\ accounts[a].user_id = caller
            /\ a \in {transactions[t].from_account_id, transactions[t].to_account_id}}

\* C30: the listing a customer gets without an account_id counts every
\* transaction that names one of the customer's accounts once: its total_count
\* is the number of those distinct rows, and its data holds the rows of that
\* many that fall on the page asked for.
C30_ListingCountsOnce ==
    [][ \A r \in Requests :
          ( /\ req[r].op = "list_transactions"
            /\ req[r].a = NULL
            /\ UserRole(req[r].caller) = "customer"
            /\ FilterCount(r)
            /\ req'[r].pc = "idle" )
              => response' =
                     TransactionList(
                         Cardinality(RowsOfCaller(req[r].caller)),
                         PageOf(Cardinality(RowsOfCaller(req[r].caller)),
                                req[r].skip, req[r].per_page))
      ]_vars

====
